---------------------------- MODULE Spec2Model ----------------------------
(***************************************************************************)
(* kvkit: codecs (value <-> string map), the string-map / URL-parameter    *)
(* bridge and the URL synchronisation of @kvkit/query.                     *)
(*                                                                         *)
(* A JavaScript string is a sequence of one-character strings, so that     *)
(* formatting and parsing are computed character by character.  A          *)
(* JavaScript value is a record tagged by its field t.  An object and a    *)
(* string map (Record<string,string>) are sequences of <<key, value>>      *)
(* pairs with unique keys, in insertion order.                             *)
(***************************************************************************)
EXTENDS Integers, Sequences, FiniteSets, TLC

VARIABLES
    codec,      \* the codec under test
    value,      \* the value handed to codec.encode (Undef when none)
    other,      \* a string map a caller merges into the encoded one
    data,       \* the string map the codec produced / is about to decode
    out,        \* outcome of the last codec.decode call
    prev,       \* outcome of the codec.decode call before that
    ops,        \* the codec calls made so far, oldest first
    now,        \* Date.now()
    hasWindow,  \* typeof window !== 'undefined'
    options,    \* the URLSyncOptions the page synchronises its URL with
    search,     \* window.location.search ("" or "?" followed by the query)
    hash,       \* window.location.hash ("" or "#" followed by the fragment)
    histLen,    \* number of entries of the session history
    log,        \* the last call of the page: <<>> or <<its record>>
    paramText,  \* a parameter string ("a=1&b=2")
    paramList,  \* a URLSearchParams: its list of <<name, value>> pairs
    slot,       \* window.localStorage.getItem(key): null or the text stored
    hookDefault,\* the defaultValue a hook is called with
    hookValue,  \* the value state of useLocalStorageCodec
    hookLog,    \* the last call of a hook: <<>> or <<its record>>
    state,      \* the state of useCodecValue: {value, error, loading}
    loads       \* the runs of loadValue, oldest first

codecVars == <<codec, value, other, data, out, prev, ops, now>>
urlVars == <<hasWindow, options, search, hash, histLen, log>>
bridgeVars == <<paramText, paramList>>
hookVars == <<slot, hookDefault, hookValue, hookLog, state, loads>>
vars == <<codec, value, other, data, out, prev, ops, now,
          hasWindow, options, search, hash, histLen, log, paramText, paramList,
          slot, hookDefault, hookValue, hookLog, state, loads>>

----------------------------------------------------------------------------
(* Bounds of the model *)

\* largest absolute value of an integer handed to a codec
MaxInt == 12
\* the clock runs from 0 to MaxClock
MaxClock == 2
\* longest sequence of codec calls on one input
MaxOps == 4
\* most entries the session history may hold
MaxHistory == 3

----------------------------------------------------------------------------
(* JavaScript values *)

Undef == [t |-> "undef"]
Null == [t |-> "null"]
Str(s) == [t |-> "str", s |-> s]
Num(n) == [t |-> "num", n |-> n]
Bool(b) == [t |-> "bool", b |-> b]
Arr(a) == [t |-> "arr", a |-> a]
Obj(o) == [t |-> "obj", o |-> o]
\* a Date: its time value, or Invalid Date
DateV(ms) == [t |-> "date", valid |-> TRUE, ms |-> ms]
InvalidDate == [t |-> "date", valid |-> FALSE, ms |-> 0]

\* outcome of a call: a returned value, or an exception
Ret(v) == [raised |-> FALSE, v |-> v]
Throw == [raised |-> TRUE, v |-> Undef]

EmptyMap == <<>>

Keys(o) == {o[i][1] : i \in DOMAIN o}
HasKey(o, k) == \E i \in DOMAIN o : o[i][1] = k
\* o[k]: the property's value, undefined when o has no such property
Get(o, k) == IF HasKey(o, k) THEN o[CHOOSE i \in DOMAIN o : o[i][1] = k][2] ELSE Undef
\* o[k] = v: an existing property keeps its place, a new one is appended
Put(o, k, v) ==
    IF HasKey(o, k)
    THEN [i \in DOMAIN o |-> IF o[i][1] = k THEN <<k, v>> ELSE o[i]]
    ELSE Append(o, <<k, v>>)
\* { ...a, ...b }
RECURSIVE Spread(_, _)
Spread(a, b) == IF b = <<>> THEN a ELSE Spread(Put(a, b[1][1], b[1][2]), Tail(b))

\* ToBoolean for the values the codecs test with !x and x || y
Truthy(v) ==
    CASE v.t = "undef" -> FALSE
      [] v.t = "null" -> FALSE
      [] v.t = "str" -> v.s # <<>>
      [] v.t = "num" -> v.n # 0
      [] v.t = "bool" -> v.b
      [] OTHER -> TRUE

----------------------------------------------------------------------------
(* Strings *)

DigitChars == <<"0", "1", "2", "3", "4", "5", "6", "7", "8", "9">>
IsDigit(c) == \E d \in DOMAIN DigitChars : DigitChars[d] = c
DigitVal(c) == (CHOOSE d \in DOMAIN DigitChars : DigitChars[d] = c) - 1

cTrue == <<"t", "r", "u", "e">>
cFalse == <<"f", "a", "l", "s", "e">>
cNull == <<"n", "u", "l", "l">>

\* s.startsWith(p, i - 1), i counted from 1
HasPrefixAt(s, i, p) ==
    /\ i + Len(p) - 1 <= Len(s)
    /\ \A j \in 1..Len(p) : s[i + j - 1] = p[j]
StartsWith(s, p) == HasPrefixAt(s, 1, p)
\* s.slice(n)
Slice(s, n) == SubSeq(s, n + 1, Len(s))
\* s.indexOf(c), counted from 1; 0 when c does not occur
IndexOf(s, c) ==
    IF \E i \in DOMAIN s : s[i] = c
    THEN CHOOSE i \in DOMAIN s : s[i] = c /\ \A j \in 1..(i - 1) : s[j] # c
    ELSE 0

\* a.join(sep) for an array of strings
RECURSIVE Join(_, _)
Join(a, sep) ==
    IF a = <<>> THEN <<>>
    ELSE IF Len(a) = 1 THEN a[1]
    ELSE a[1] \o sep \o Join(Tail(a), sep)

\* s.split(c) for a one-character separator
RECURSIVE Split(_, _)
Split(s, c) ==
    LET i == IndexOf(s, c) IN
    IF i = 0 THEN <<s>>
    ELSE <<SubSeq(s, 1, i - 1)>> \o Split(Slice(s, i), c)

\* Number.prototype.toString for an integer
RECURSIVE NatToChars(_)
NatToChars(n) ==
    IF n < 10 THEN <<DigitChars[n + 1]>>
    ELSE NatToChars(n \div 10) \o <<DigitChars[(n % 10) + 1]>>
NumberToString(n) == IF n < 0 THEN <<"-">> \o NatToChars(-n) ELSE NatToChars(n)

\* the value of a non-empty run of decimal digits
RECURSIVE DigitsToNat(_)
DigitsToNat(s) ==
    IF Len(s) = 1 THEN DigitVal(s[1])
    ELSE 10 * DigitsToNat(SubSeq(s, 1, Len(s) - 1)) + DigitVal(s[Len(s)])
AllDigits(s) == s # <<>> /\ \A i \in DOMAIN s : IsDigit(s[i])


----------------------------------------------------------------------------
(* JSON.stringify and JSON.parse, for integers, strings, booleans, null,   *)
(* arrays, objects and dates *)

\* Date.prototype.toISOString for a time value of the first second of the
\* epoch: "1970-01-01T00:00:00.mmmZ"
IsoHead == <<"1", "9", "7", "0", "-", "0", "1", "-", "0", "1", "T",
             "0", "0", ":", "0", "0", ":", "0", "0", ".">>
Pad3(d) == IF Len(d) = 1 THEN <<"0", "0">> \o d ELSE IF Len(d) = 2 THEN <<"0">> \o d ELSE d
ToISOString(ms) == IsoHead \o Pad3(NatToChars(ms)) \o <<"Z">>

\* a string between double quotes, with the quote and the backslash escaped
RECURSIVE EscapeChars(_)
EscapeChars(s) ==
    IF s = <<>> THEN <<>>
    ELSE (IF s[1] = "\"" THEN <<"\\", "\"">>
          ELSE IF s[1] = "\\" THEN <<"\\", "\\">>
          ELSE <<s[1]>>) \o EscapeChars(Tail(s))
Quote(s) == <<"\"">> \o EscapeChars(s) \o <<"\"">>

RECURSIVE StringifyChars(_), StringifyElems(_), StringifyMembers(_, _)
\* the JSON text of a value other than undefined
StringifyChars(v) ==
    CASE v.t = "str" -> Quote(v.s)
      [] v.t = "num" -> NumberToString(v.n)
      [] v.t = "bool" -> (IF v.b THEN cTrue ELSE cFalse)
      [] v.t = "null" -> cNull
      [] v.t = "undef" -> cNull
      [] v.t = "date" -> (IF v.valid THEN Quote(ToISOString(v.ms)) ELSE cNull)
      [] v.t = "arr" -> <<"[">> \o StringifyElems(v.a) \o <<"]">>
      [] v.t = "obj" -> <<"{">> \o StringifyMembers(v.o, TRUE) \o <<"}">>
\* the elements of an array: undefined is written as null
StringifyElems(a) ==
    IF a = <<>> THEN <<>>
    ELSE IF Len(a) = 1 THEN StringifyChars(a[1])
    ELSE StringifyChars(a[1]) \o <<",">> \o StringifyElems(Tail(a))
\* the members of an object: a property holding undefined is left out
StringifyMembers(o, first) ==
    IF o = <<>> THEN <<>>
    ELSE IF o[1][2].t = "undef" THEN StringifyMembers(Tail(o), first)
    ELSE (IF first THEN <<>> ELSE <<",">>)
         \o Quote(o[1][1]) \o <<":">> \o StringifyChars(o[1][2])
         \o StringifyMembers(Tail(o), FALSE)

\* JSON.stringify(v): a string, or undefined for undefined
JSONstringify(v) == IF v.t = "undef" THEN Undef ELSE Str(StringifyChars(v))

\* result of a parsing step: the value read and the index after it
POk(v, i) == [ok |-> TRUE, v |-> v, i |-> i]
PFail == [ok |-> FALSE, v |-> Undef, i |-> 0]

IsWs(c) == c = " "
RECURSIVE SkipWs(_, _)
SkipWs(s, i) == IF i <= Len(s) /\ IsWs(s[i]) THEN SkipWs(s, i + 1) ELSE i

\* index after the run of digits starting at i
RECURSIVE DigitsEnd(_, _)
DigitsEnd(s, i) == IF i <= Len(s) /\ IsDigit(s[i]) THEN DigitsEnd(s, i + 1) ELSE i

\* JSON number: -? (0 | [1-9][0-9]*); fractions and exponents are not integers
\* and are outside the value universe
ParseNumber(s, i) ==
    LET neg == s[i] = "-"
        b == IF neg THEN i + 1 ELSE i
        e == DigitsEnd(s, b)
    IN  IF e = b THEN PFail
        ELSE IF s[b] = "0" /\ e > b + 1 THEN PFail
        ELSE LET n == DigitsToNat(SubSeq(s, b, e - 1)) IN
             POk(Num(IF neg THEN -n ELSE n), e)

\* the characters of a JSON string after its opening quote
RECURSIVE ParseStringBody(_, _, _)
ParseStringBody(s, i, acc) ==
    IF i > Len(s) THEN PFail
    ELSE IF s[i] = "\"" THEN POk(Str(acc), i + 1)
    ELSE IF s[i] = "\\"
         THEN IF i + 1 <= Len(s) /\ s[i + 1] \in {"\"", "\\", "/"}
              THEN ParseStringBody(s, i + 2, Append(acc, s[i + 1]))
              ELSE PFail
    ELSE ParseStringBody(s, i + 1, Append(acc, s[i]))

RECURSIVE ParseValue(_, _), ParseElems(_, _, _), ParseMembers(_, _, _)
ParseValue(s, i0) ==
    LET i == SkipWs(s, i0) IN
    IF i > Len(s) THEN PFail
    ELSE CASE s[i] = "\"" -> ParseStringBody(s, i + 1, <<>>)
           [] s[i] = "-" \/ IsDigit(s[i]) -> ParseNumber(s, i)
           [] s[i] = "[" ->
                LET j == SkipWs(s, i + 1) IN
                IF j <= Len(s) /\ s[j] = "]" THEN POk(Arr(<<>>), j + 1)
                ELSE ParseElems(s, i + 1, <<>>)
           [] s[i] = "{" ->
                LET j == SkipWs(s, i + 1) IN
                IF j <= Len(s) /\ s[j] = "}" THEN POk(Obj(<<>>), j + 1)
                ELSE ParseMembers(s, i + 1, <<>>)
           [] HasPrefixAt(s, i, cTrue) -> POk(Bool(TRUE), i + Len(cTrue))
           [] HasPrefixAt(s, i, cFalse) -> POk(Bool(FALSE), i + Len(cFalse))
           [] HasPrefixAt(s, i, cNull) -> POk(Null, i + Len(cNull))
           [] OTHER -> PFail
\* value (, value)* ]
ParseElems(s, i, acc) ==
    LET r == ParseValue(s, i) IN
    IF ~r.ok THEN PFail
    ELSE LET j == SkipWs(s, r.i) IN
         IF j > Len(s) THEN PFail
         ELSE IF s[j] = "]" THEN POk(Arr(Append(acc, r.v)), j + 1)
         ELSE IF s[j] = "," THEN ParseElems(s, j + 1, Append(acc, r.v))
         ELSE PFail
\* string : value (, string : value)* }   (a repeated name keeps the last value)
ParseMembers(s, i, acc) ==
    LET k == SkipWs(s, i) IN
    IF k > Len(s) \/ s[k] # "\"" THEN PFail
    ELSE LET name == ParseStringBody(s, k + 1, <<>>) IN
         IF ~name.ok THEN PFail
         ELSE LET c == SkipWs(s, name.i) IN
              IF c > Len(s) \/ s[c] # ":" THEN PFail
              ELSE LET r == ParseValue(s, c + 1) IN
                   IF ~r.ok THEN PFail
                   ELSE LET j == SkipWs(s, r.i)
                            acc2 == Put(acc, name.v.s, r.v)
                        IN  IF j > Len(s) THEN PFail
                            ELSE IF s[j] = "}" THEN POk(Obj(acc2), j + 1)
                            ELSE IF s[j] = "," THEN ParseMembers(s, j + 1, acc2)
                            ELSE PFail

\* JSON.parse(x): x is converted to a string first (undefined reads
\* "undefined", which is no JSON text); a SyntaxError is a Throw
JSONparse(x) ==
    IF x.t # "str" THEN (IF x.t = "null" THEN Ret(Null) ELSE Throw)
    ELSE LET r == ParseValue(x.s, 1) IN
         IF r.ok /\ SkipWs(x.s, r.i) > Len(x.s) THEN Ret(r.v) ELSE Throw

\* Number(s) for a string: 0 for the empty string, the integer for an
\* optionally signed run of digits, NaN otherwise
NaN == [t |-> "nan"]
ToNumber(s) ==
    IF s = <<>> THEN Num(0)
    ELSE LET signed == s[1] \in {"-", "+"}
             d == IF signed THEN Tail(s) ELSE s
         IN  IF AllDigits(d)
             THEN Num(IF s[1] = "-" THEN -DigitsToNat(d) ELSE DigitsToNat(d))
             ELSE NaN

\* parseInt(s, 10): leading blanks skipped, an optional sign, the longest
\* run of digits; NaN when there is no digit
ParseInt(s) ==
    LET i == SkipWs(s, 1)
        signed == i <= Len(s) /\ s[i] \in {"-", "+"}
        b == IF signed THEN i + 1 ELSE i
        e == DigitsEnd(s, b)
    IN  IF e = b THEN NaN
        ELSE Num(IF s[i] = "-" THEN -DigitsToNat(SubSeq(s, b, e - 1))
                 ELSE DigitsToNat(SubSeq(s, b, e - 1)))

\* new Date(s) for a string: the time value of an ISO string of the first
\* second of the epoch; every other text is parsed by implementation-defined
\* rules, giving Invalid Date or some date
IsIsoString(s) ==
    /\ Len(s) = Len(IsoHead) + 4
    /\ StartsWith(s, IsoHead)
    /\ AllDigits(SubSeq(s, Len(IsoHead) + 1, Len(IsoHead) + 3))
    /\ s[Len(s)] = "Z"
DateParse(s) ==
    IF IsIsoString(s)
    THEN {DateV(DigitsToNat(SubSeq(s, Len(IsoHead) + 1, Len(IsoHead) + 3)))}
    ELSE {InvalidDate} \cup {DateV(ms) : ms \in 0..MaxClock}

----------------------------------------------------------------------------
(* The codecs.  A codec is a record: its kind, the key of a single-field   *)
(* codec, the prefix (namespace + separator) of a prefix codec.            *)

cValue == <<"v", "a", "l", "u", "e">>
cData == <<"d", "a", "t", "a">>
cDot == <<".">>
cName == <<"n", "a", "m", "e">>
cAge == <<"a", "g", "e">>
cJohn == <<"J", "o", "h", "n">>
cJane == <<"J", "a", "n", "e">>

StringCodec(key) == [kind |-> "string", key |-> key, prefix |-> <<>>]
NumberCodec(key) == [kind |-> "number", key |-> key, prefix |-> <<>>]
BooleanCodec(key) == [kind |-> "boolean", key |-> key, prefix |-> <<>>]
DateCodec(key) == [kind |-> "date", key |-> key, prefix |-> <<>>]
StringArrayCodec(key) == [kind |-> "stringArray", key |-> key, prefix |-> <<>>]
JsonCodec(key) == [kind |-> "json", key |-> key, prefix |-> <<>>]
FlatCodec == [kind |-> "flat", key |-> <<>>, prefix |-> <<>>]
PrefixCodec(namespace, separator) ==
    [kind |-> "prefix", key |-> <<>>, prefix |-> namespace \o separator]
\* codecs of a caller: the {name, age} codec of the query tests, and one
\* like it whose decode raises on an age that is no number
MockCodec == [kind |-> "mock", key |-> <<>>, prefix |-> <<>>]
StrictCodec == [kind |-> "strict", key |-> <<>>, prefix |-> <<>>]

ValueKinds == {"string", "number", "boolean", "date", "stringArray"}

\* the serialize argument of each value codec
StringSerialize(v) == Ret(v)
NumberSerialize(v) == Ret(Str(NumberToString(v.n)))
BooleanSerialize(v) == Ret(Str(IF v.b THEN cTrue ELSE cFalse))
\* toISOString raises a RangeError on Invalid Date
DateSerialize(v) == IF v.valid THEN Ret(Str(ToISOString(v.ms))) ELSE Throw
StringArraySerialize(v) == Ret(Str(Join([i \in DOMAIN v.a |-> v.a[i].s], <<",">>)))

Serialize(kind, v) ==
    CASE kind = "string" -> StringSerialize(v)
      [] kind = "number" -> NumberSerialize(v)
      [] kind = "boolean" -> BooleanSerialize(v)
      [] kind = "date" -> DateSerialize(v)
      [] kind = "stringArray" -> StringArraySerialize(v)

\* the deserialize argument of each value codec, as the set of its outcomes
StringDeserialize(v) == IF Truthy(v) THEN v ELSE Str(<<>>)
NumberDeserialize(v) ==
    LET n == ToNumber(v.s) IN IF n.t = "num" /\ n.n # 0 THEN n ELSE Num(0)
\* a slip: !!v in place of v === 'true'
BooleanDeserialize_Truthy(v) == Bool(Truthy(v))
BooleanDeserialize(v) == Bool(v.s = cTrue)
DateDeserialize(v, clock) == IF Truthy(v) THEN DateParse(v.s) ELSE {DateV(clock)}
\* a slip: the split without the test for the empty string
StringArrayDeserialize_AlwaysSplit(v) ==
    LET parts == Split(v.s, ",") IN Arr([i \in DOMAIN parts |-> Str(parts[i])])
StringArrayDeserialize(v) ==
    IF Truthy(v)
    THEN LET parts == Split(v.s, ",") IN Arr([i \in DOMAIN parts |-> Str(parts[i])])
    ELSE Arr(<<>>)

Deserialize(kind, v, clock) ==
    CASE kind = "string" -> {Ret(StringDeserialize(v))}
      [] kind = "number" -> {Ret(NumberDeserialize(v))}
      [] kind = "boolean" -> {Ret(BooleanDeserialize(v))}
      [] kind = "date" -> {Ret(d) : d \in DateDeserialize(v, clock)}
      [] kind = "stringArray" -> {Ret(StringArrayDeserialize(v))}

\* valueCodec(serialize, deserialize, key).encode
ValueCodecEncode(c, v) ==
    LET s == Serialize(c.kind, v) IN
    IF s.raised THEN Throw ELSE Ret(<<<<c.key, s.v>>>>)
\* data[key] || ''
ValueCodecRaw(c, d) == IF Truthy(Get(d, c.key)) THEN Get(d, c.key) ELSE Str(<<>>)
\* valueCodec(serialize, deserialize, key).decode
ValueCodecDecode(c, d, clock) == Deserialize(c.kind, ValueCodecRaw(c, d), clock)

\* jsonCodec(key).encode
JsonCodecEncode(c, v) == Ret(<<<<c.key, JSONstringify(v)>>>>)
\* slips of jsonCodec(key).decode: the fallback applied to a falsy parsed
\* value; the parse outside try/catch; the parse with neither test nor catch
JsonCodecDecode_FalsyToEmpty(c, d) ==
    LET raw == Get(d, c.key) IN
    IF ~Truthy(raw) THEN Ret(Obj(<<>>))
    ELSE LET r == JSONparse(raw) IN
         IF r.raised \/ ~Truthy(r.v) THEN Ret(Obj(<<>>)) ELSE Ret(r.v)
JsonCodecDecode_NoCatch(c, d) ==
    LET raw == Get(d, c.key) IN
    IF ~Truthy(raw) THEN Ret(Obj(<<>>)) ELSE JSONparse(raw)
JsonCodecDecode_Unguarded(c, d) == JSONparse(Get(d, c.key))
\* a slip: the raw text returned when it is no JSON, as the flat codec does
JsonCodecDecode_RawOnError(c, d) ==
    LET raw == Get(d, c.key) IN
    IF ~Truthy(raw) THEN Ret(Obj(<<>>))
    ELSE LET r == JSONparse(raw) IN IF r.raised THEN Ret(raw) ELSE Ret(r.v)
\* jsonCodec(key).decode
JsonCodecDecode(c, d) ==
    LET raw == Get(d, c.key) IN
    IF ~Truthy(raw) THEN Ret(Obj(<<>>))
    ELSE LET r == JSONparse(raw) IN
         IF r.raised THEN Ret(Obj(<<>>)) ELSE Ret(r.v)

\* a slip: every field stringified, strings included
FieldToString_AlwaysStringify(val) == JSONstringify(val)
\* typeof val === 'string' ? val : JSON.stringify(val)
FieldToString(val) == IF val.t = "str" THEN val ELSE JSONstringify(val)
\* a slip: the parse outside try/catch
ParseOrRaw_NoCatch(val) == JSONparse(val)
\* try { JSON.parse(value) } catch { value }
ParseOrRaw(val) == LET r == JSONparse(val) IN IF r.raised THEN Ret(val) ELSE r

\* flatCodec().encode and prefixCodec(namespace, separator).encode: one
\* entry per field, the key prefixed (the flat codec has the empty prefix)
RECURSIVE EncodeFields(_, _, _)
EncodeFields(prefix, o, acc) ==
    IF o = <<>> THEN acc
    ELSE EncodeFields(prefix, Tail(o), Put(acc, prefix \o o[1][1], FieldToString(o[1][2])))
FlatCodecEncode(v) == Ret(EncodeFields(<<>>, v.o, <<>>))
PrefixCodecEncode(c, v) == Ret(EncodeFields(c.prefix, v.o, <<>>))

\* the loop over Object.entries(data) of flatCodec().decode; an exception
\* escaping an iteration ends the call
RECURSIVE FlatDecodeEntries(_, _)
FlatDecodeEntries(d, acc) ==
    IF d = <<>> THEN Ret(Obj(acc))
    ELSE LET r == ParseOrRaw(d[1][2]) IN
         IF r.raised THEN Throw
         ELSE FlatDecodeEntries(Tail(d), Put(acc, d[1][1], r.v))
FlatCodecDecode(d) == FlatDecodeEntries(d, <<>>)

\* a slip: the namespace matched without its separator
KeyMatches_NamespaceOnly(key, prefix) == StartsWith(key, SubSeq(prefix, 1, Len(prefix) - 1))
\* key.startsWith(prefix)
KeyMatches(key, prefix) == StartsWith(key, prefix)
\* the loop over Object.entries(data) of prefixCodec(..).decode
RECURSIVE PrefixDecodeEntries(_, _, _)
PrefixDecodeEntries(prefix, d, acc) ==
    IF d = <<>> THEN Ret(Obj(acc))
    ELSE IF KeyMatches(d[1][1], prefix)
         THEN LET r == ParseOrRaw(d[1][2]) IN
              IF r.raised THEN Throw
              ELSE PrefixDecodeEntries(prefix, Tail(d),
                                       Put(acc, Slice(d[1][1], Len(prefix)), r.v))
         ELSE PrefixDecodeEntries(prefix, Tail(d), acc)
PrefixCodecDecode(c, d) == PrefixDecodeEntries(c.prefix, d, <<>>)

\* mockCodec.encode: { name: value.name, age: value.age.toString() }
MockCodecEncode(v) ==
    Ret(<< <<cName, Get(v.o, cName)>>, <<cAge, Str(NumberToString(Get(v.o, cAge).n))>> >>)
\* mockCodec.decode: { name: data.name || '', age: parseInt(data.age || '0', 10) }
MockCodecDecode(d) ==
    LET name == IF Truthy(Get(d, cName)) THEN Get(d, cName) ELSE Str(<<>>)
        age == IF Truthy(Get(d, cAge)) THEN Get(d, cAge).s ELSE <<"0">>
    IN  Ret(Obj(<< <<cName, name>>, <<cAge, ParseInt(age)>> >>))
\* a decode that raises on malformed input and has a default for a missing one
StrictCodecDecode(d) ==
    LET r == MockCodecDecode(d) IN IF Get(r.v.o, cAge) = NaN THEN Throw ELSE r

\* codec.encode(value): the string map, or an exception
Encode(c, v) ==
    CASE c.kind \in ValueKinds -> ValueCodecEncode(c, v)
      [] c.kind = "json" -> JsonCodecEncode(c, v)
      [] c.kind = "flat" -> FlatCodecEncode(v)
      [] c.kind = "prefix" -> PrefixCodecEncode(c, v)
      [] c.kind \in {"mock", "strict"} -> MockCodecEncode(v)

\* codec.decode(data) at time clock: the set of its possible outcomes
Decode(c, d, clock) ==
    CASE c.kind \in ValueKinds -> ValueCodecDecode(c, d, clock)
      [] c.kind = "json" -> {JsonCodecDecode(c, d)}
      [] c.kind = "flat" -> {FlatCodecDecode(d)}
      [] c.kind = "prefix" -> {PrefixCodecDecode(c, d)}
      [] c.kind = "mock" -> {MockCodecDecode(d)}
      [] c.kind = "strict" -> {StrictCodecDecode(d)}

----------------------------------------------------------------------------
(* Inputs of the codec calls *)

kN == <<"n">>
kA == <<"a">>
kQ == <<"q">>
kK == <<"k">>
nsU == <<"u">>
nsS == <<"s">>
nsUS == <<"u", ".", "s">>
cUnder == <<"_">>

\* texts met as values of a string map: JSON and non-JSON texts, numerals,
\* comma lists, a date
SampleStrings ==
    { <<>>, <<"a">>, <<"5">>, <<"-", "3">>, <<"0">>, <<"0", "5">>, <<"-">>,
      cTrue, cFalse, cNull, <<"D", "e", "v">>,
      <<"a", ",", "b">>, <<",">>, <<"\"">>, <<"\"", "5", "\"">>,
      <<"[", "1">>, <<"[", "1", ",", "2", "]">>, <<"{", "}">>,
      <<"{", "\"", "a", "\"", ":", "1", "}">>, <<"{", "a", ":", "1", "}">>,
      <<" ", "7">>, ToISOString(1) }

Ints == -MaxInt..MaxInt

StringValues == {Str(s) : s \in SampleStrings}
NumberValues == {Num(n) : n \in Ints}
BooleanValues == {Bool(TRUE), Bool(FALSE)}
DateValues == {DateV(ms) : ms \in 0..MaxClock}
ArrayItems == {<<>>, <<"a">>, <<"b">>, <<"5">>, <<"a", ",", "b">>}
StringArrayValues ==
    {Arr(<<>>)} \cup {Arr(<<Str(x)>>) : x \in ArrayItems}
    \cup {Arr(<<Str(x), Str(y)>>) : x \in ArrayItems, y \in ArrayItems}
\* JSON-safe values
JsonValues ==
    { Obj(<<>>), Obj(<< <<kN, Str(<<"A", "l">>)>>, <<kA, Num(30)>> >>),
      Obj(<< <<kN, Obj(<< <<kA, Arr(<<Num(1), Null>>)>> >>)>> >>),
      Arr(<<>>), Arr(<<Str(<<"a">>), Str(<<"\"">>)>>), Arr(<<Num(-2), Bool(TRUE)>>),
      Str(<<>>), Str(<<"a">>), Str(<<"5">>), Str(<<"\"", "\\">>),
      Num(0), Num(5), Num(-MaxInt), Bool(FALSE), Bool(TRUE), Null }
\* field values of the records given to the flat and prefix codecs:
\* strings, numbers, booleans, nested JSON-safe objects, string arrays
FieldStrings ==
    { <<>>, <<"J">>, <<"D", "e", "v">>, <<"5">>, cTrue, cNull,
      <<"\"", "x", "\"">>, <<"[", "]">>, <<"a", ",", "b">> }
FieldValues ==
    {Str(s) : s \in FieldStrings}
    \cup { Num(0), Num(30), Num(-MaxInt), Bool(TRUE), Bool(FALSE),
           Obj(<< <<kA, Num(1)>>, <<kN, Str(<<"x">>)>> >>), Obj(<<>>),
           Arr(<<Str(<<"a">>), Str(<<"b">>)>>), Arr(<<>>) }
RecordValues ==
    {Obj(<<>>)} \cup {Obj(<< <<kN, x>> >>) : x \in FieldValues}
    \cup {Obj(<< <<kN, x>>, <<kA, y>> >>) :
            x \in {Str(<<"J">>), Str(<<"5">>)}, y \in {Num(30), Bool(TRUE), Str(<<"x">>)}}
    \cup {Obj(<< <<kN, Str(<<"J">>)>>, <<kA, Undef>> >>)}

Codecs ==
    { StringCodec(cValue), StringCodec(kK), NumberCodec(cValue), NumberCodec(kK),
      BooleanCodec(cValue), BooleanCodec(kK), DateCodec(cValue),
      StringArrayCodec(cValue), JsonCodec(cData), JsonCodec(kK), FlatCodec,
      PrefixCodec(nsU, cDot), PrefixCodec(nsUS, cDot), PrefixCodec(nsU, cUnder) }
PrefixCodecs == {c \in Codecs : c.kind = "prefix"} \cup {PrefixCodec(nsS, cDot)}

\* the values of a codec's type
ValuesFor(c) ==
    CASE c.kind = "string" -> StringValues
      [] c.kind = "number" -> NumberValues
      [] c.kind = "boolean" -> BooleanValues
      [] c.kind = "date" -> DateValues
      [] c.kind = "stringArray" -> StringArrayValues
      [] c.kind = "json" -> JsonValues
      [] c.kind \in {"flat", "prefix"} -> RecordValues

\* what a caller merges into an encoded map: nothing, the encoded map of
\* another prefix codec, keys of no namespace
NoOther == [kind |-> "none"]
RawOther(m) == [kind |-> "raw", map |-> m]
CodecOther(c2, v2, extra) == [kind |-> "codec", c |-> c2, v |-> v2, extra |-> extra]
ExtraMaps == {EmptyMap, << <<kN, Str(<<"9">>)>> >>, << <<kQ, Str(<<"z">>)>>, <<kA, Str(cTrue)>> >>}
OtherRecords == { Obj(<< <<kN, Str(<<"B">>)>> >>), Obj(<< <<kQ, Num(7)>>, <<kN, Bool(FALSE)>> >>) }
OtherMap(o) ==
    CASE o.kind = "none" -> EmptyMap
      [] o.kind = "raw" -> o.map
      [] o.kind = "codec" -> Spread(Encode(o.c, o.v).v, o.extra)

\* string maps handed to decode as they are: the keys the codec reads, other
\* keys, well-formed and malformed values
RawKeys(c) ==
    CASE c.kind \in ValueKinds \cup {"json"} -> {c.key}
      [] c.kind = "flat" -> {kN}
      [] c.kind = "prefix" -> {c.prefix \o kN}
RawMaps(c) ==
    {EmptyMap, << <<kQ, Str(<<"z">>)>> >>}
    \cup {<< <<k, Str(s)>> >> : k \in RawKeys(c), s \in SampleStrings}
    \cup {<< <<k, Str(s)>>, <<kQ, Str(<<"[">>)>> >> : k \in RawKeys(c), s \in {<<"5">>, <<"{">>}}

----------------------------------------------------------------------------
(* The codec calls.  A run starts from a value (encode, then decode) or    *)
(* from a string map given as it is (decode); a decoded value may be       *)
(* encoded and decoded again.                                              *)

\* no parameter collection is converted on its own
BridgeIdle ==
    /\ paramText = <<>>
    /\ paramList = <<>>

\* no component is rendered
HooksIdle ==
    /\ slot = Null
    /\ hookDefault = Undef
    /\ hookValue = Undef
    /\ hookLog = <<>>
    /\ state = [value |-> Undef, error |-> Undef, loading |-> FALSE]
    /\ loads = <<>>

\* no page is open while the codecs are exercised on their own
UrlIdle ==
    /\ hasWindow = FALSE
    /\ options = [history |-> "default", useHash |-> FALSE, hashRouting |-> FALSE]
    /\ search = <<>>
    /\ hash = <<>>
    /\ histLen = 0
    /\ log = <<>>

InitCodec ==
    /\ UrlIdle
    /\ BridgeIdle
    /\ HooksIdle
    /\ codec \in Codecs
    /\ \/ /\ value \in ValuesFor(codec)
          /\ \/ other = NoOther
             \/ /\ codec.kind = "prefix"
                /\ other \in {CodecOther(c2, v2, e) :
                                c2 \in PrefixCodecs \ {codec}, v2 \in OtherRecords, e \in ExtraMaps}
       \/ /\ value = Undef
          /\ other \in {RawOther(m) : m \in RawMaps(codec)}
    /\ data = EmptyMap
    /\ out = Ret(Undef)
    /\ prev = Ret(Undef)
    /\ ops = <<>>
    /\ now = 0

LastOp == IF ops = <<>> THEN "" ELSE ops[Len(ops)]

\* data = codec.encode(value)
EncodeValue ==
    /\ ops = <<>>
    /\ value # Undef
    /\ LET r == Encode(codec, value) IN
       /\ data' = (IF r.raised THEN data ELSE r.v)
       /\ ops' = <<IF r.raised THEN "encodeRaised" ELSE "encode">>
    /\ UNCHANGED <<codec, value, other, out, prev, now>>
    /\ UNCHANGED urlVars
    /\ UNCHANGED bridgeVars
    /\ UNCHANGED hookVars

\* data = { ...data, ...other }
MergeOther ==
    /\ OtherMap(other) # EmptyMap
    /\ \/ ops = <<>> /\ value = Undef
       \/ ops = <<"encode">>
    /\ data' = Spread(data, OtherMap(other))
    /\ ops' = Append(ops, "merge")
    /\ UNCHANGED <<codec, value, other, out, prev, now>>
    /\ UNCHANGED urlVars
    /\ UNCHANGED bridgeVars
    /\ UNCHANGED hookVars

\* out = codec.decode(data)
DecodeData ==
    /\ Len(ops) < MaxOps
    /\ LastOp # "encodeRaised"
    /\ value = Undef \/ ops # <<>>
    /\ other.kind = "raw" /\ other.map # EmptyMap => ops # <<>>
    /\ \E r \in Decode(codec, data, now) :
          /\ out' = r
          /\ prev' = out
    /\ ops' = Append(ops, "decode")
    /\ UNCHANGED <<codec, value, other, data, now>>
    /\ UNCHANGED urlVars
    /\ UNCHANGED bridgeVars
    /\ UNCHANGED hookVars

\* data = codec.encode(out), the value decoded last
EncodeDecoded ==
    /\ Len(ops) < MaxOps
    /\ LastOp = "decode"
    /\ ~out.raised
    /\ LET r == Encode(codec, out.v) IN
       /\ data' = (IF r.raised THEN data ELSE r.v)
       /\ ops' = Append(ops, IF r.raised THEN "encodeRaised" ELSE "reencode")
    /\ UNCHANGED <<codec, value, other, out, prev, now>>
    /\ UNCHANGED urlVars
    /\ UNCHANGED bridgeVars
    /\ UNCHANGED hookVars

\* time passes
Tick ==
    /\ now < MaxClock
    /\ now' = now + 1
    /\ UNCHANGED <<codec, value, other, data, out, prev, ops>>
    /\ UNCHANGED urlVars
    /\ UNCHANGED bridgeVars
    /\ UNCHANGED hookVars

----------------------------------------------------------------------------
(* URLSearchParams and the URL of the page.  search and hash hold the      *)
(* query and fragment as they stand in location.href: empty when the URL   *)
(* has none, "?" or "#" alone when it has an empty one.                    *)

\* the percent-encoded bytes of the characters that are met here and are
\* not left as they are
PercentCode ==
    [c \in {"\"", "#", "%", "&", "+", ",", "/", ":", "=", "?", "[", "\\", "]", "{", "}", " "} |->
        CASE c = "\"" -> <<"%", "2", "2">>
          [] c = "#" -> <<"%", "2", "3">>
          [] c = "%" -> <<"%", "2", "5">>
          [] c = "&" -> <<"%", "2", "6">>
          [] c = "+" -> <<"%", "2", "B">>
          [] c = "," -> <<"%", "2", "C">>
          [] c = "/" -> <<"%", "2", "F">>
          [] c = ":" -> <<"%", "3", "A">>
          [] c = "=" -> <<"%", "3", "D">>
          [] c = "?" -> <<"%", "3", "F">>
          [] c = "[" -> <<"%", "5", "B">>
          [] c = "\\" -> <<"%", "5", "C">>
          [] c = "]" -> <<"%", "5", "D">>
          [] c = "{" -> <<"%", "7", "B">>
          [] c = "}" -> <<"%", "7", "D">>
          [] c = " " -> <<"%", "2", "0">>]

\* application/x-www-form-urlencoded serialisation of a name or value:
\* letters, digits and * - . _ stay, a space becomes +, the rest is
\* percent-encoded
RECURSIVE FormEncode(_)
FormEncode(s) ==
    IF s = <<>> THEN <<>>
    ELSE (IF s[1] = " " THEN <<"+">>
          ELSE IF s[1] \in DOMAIN PercentCode THEN PercentCode[s[1]]
          ELSE <<s[1]>>) \o FormEncode(Tail(s))

\* a slip: the text of a parameter taken as it stands
FormDecode_Raw(s) == s
\* its inverse: + becomes a space, %XX the character it encodes
RECURSIVE FormDecode(_)
FormDecode(s) ==
    IF s = <<>> THEN <<>>
    ELSE IF s[1] = "+" THEN <<" ">> \o FormDecode(Tail(s))
    ELSE IF /\ s[1] = "%"
            /\ Len(s) >= 3
            /\ \E c \in DOMAIN PercentCode : PercentCode[c] = SubSeq(s, 1, 3)
         THEN <<CHOOSE c \in DOMAIN PercentCode : PercentCode[c] = SubSeq(s, 1, 3)>>
              \o FormDecode(Slice(s, 3))
    ELSE <<s[1]>> \o FormDecode(Tail(s))

\* the characters the URL parser percent-encodes in a query and in a fragment
QueryEncodeSet == {" ", "\"", "#"}
FragmentEncodeSet == {" ", "\""}
RECURSIVE UrlEncode(_, _)
UrlEncode(s, set) ==
    IF s = <<>> THEN <<>>
    ELSE (IF s[1] \in set THEN PercentCode[s[1]] ELSE <<s[1]>>) \o UrlEncode(Tail(s), set)

\* new URLSearchParams(text): the list of <<name, value>> pairs
RECURSIVE ParsePairs(_)
ParsePairs(segments) ==
    IF segments = <<>> THEN <<>>
    ELSE LET seg == segments[1]
             eq == IndexOf(seg, "=")
             name == IF eq = 0 THEN seg ELSE SubSeq(seg, 1, eq - 1)
             val == IF eq = 0 THEN <<>> ELSE Slice(seg, eq)
         IN  (IF seg = <<>> THEN <<>> ELSE << <<FormDecode(name), FormDecode(val)>> >>)
             \o ParsePairs(Tail(segments))
NewURLSearchParams(text) ==
    ParsePairs(Split(IF StartsWith(text, <<"?">>) THEN Tail(text) ELSE text, "&"))

\* params.toString()
RECURSIVE ParamsToString(_)
ParamsToString(params) ==
    IF params = <<>> THEN <<>>
    ELSE FormEncode(params[1][1]) \o <<"=">> \o FormEncode(params[1][2])
         \o (IF Len(params) = 1 THEN <<>> ELSE <<"&">> \o ParamsToString(Tail(params)))

\* a slip: a key that is already there keeps its value
RECURSIVE ParamsToMap_FirstWins(_, _)
ParamsToMap_FirstWins(params, acc) ==
    IF params = <<>> THEN acc
    ELSE ParamsToMap_FirstWins(Tail(params),
                               IF HasKey(acc, params[1][1]) THEN acc
                               ELSE Put(acc, params[1][1], Str(params[1][2])))
\* urlSearchParamsToStringMap: result[key] = value for every pair in turn
RECURSIVE ParamsToMap(_, _)
ParamsToMap(params, acc) ==
    IF params = <<>> THEN acc
    ELSE ParamsToMap(Tail(params), Put(acc, params[1][1], Str(params[1][2])))
UrlSearchParamsToStringMap(params) == ParamsToMap(params, <<>>)

\* a slip: a null or undefined value written as the empty string
RECURSIVE MapToParams_NullishAsEmpty(_, _)
MapToParams_NullishAsEmpty(d, acc) ==
    IF d = <<>> THEN acc
    ELSE MapToParams_NullishAsEmpty(Tail(d),
                                    Put(acc, d[1][1],
                                        IF d[1][2].t \in {"undef", "null"} THEN <<>>
                                        ELSE d[1][2].s))
\* stringMapToURLSearchParams: params.set(key, value) for every entry whose
\* value is neither undefined nor null
RECURSIVE MapToParams(_, _)
MapToParams(d, acc) ==
    IF d = <<>> THEN acc
    ELSE MapToParams(Tail(d),
                     IF d[1][2].t \in {"undef", "null"} THEN acc
                     ELSE Put(acc, d[1][1], d[1][2].s))
StringMapToURLSearchParams(d) == MapToParams(d, <<>>)

\* location.search and location.hash: empty for an empty query or fragment
LocationSearch(q) == IF q = <<"?">> THEN <<>> ELSE q
LocationHash(h) == IF h = <<"#">> THEN <<>> ELSE h

\* url.search = text, read back from url.href
SetSearch(text) ==
    LET q == IF StartsWith(text, <<"?">>) THEN Tail(text) ELSE text IN
    IF text = <<>> THEN <<>> ELSE <<"?">> \o UrlEncode(q, QueryEncodeSet)
\* the fragment location.hash = text navigates to
SetHash(text) ==
    <<"#">> \o UrlEncode(IF StartsWith(text, <<"#">>) THEN Tail(text) ELSE text,
                         FragmentEncodeSet)

----------------------------------------------------------------------------
(* updateQuery.  Its effect on a location is a record: the new query and   *)
(* fragment, and the calls it made on window.history and location.hash.    *)

\* URLSyncOptions; history "default" is the option left out
Options(history, useHash, hashRouting) ==
    [history |-> history, useHash |-> useHash, hashRouting |-> hashRouting]

\* encoded: codec.encode was called; ret: the value returned; paramString:
\* the parameter string a read resolved
Effect(q, h, calls) ==
    [search |-> q, hash |-> h, calls |-> calls, raised |-> FALSE,
     encoded |-> TRUE, ret |-> Undef, paramString |-> <<>>]
\* a call that returns at once
NoEffect(q, h) == [Effect(q, h, <<>>) EXCEPT !.encoded = FALSE]
\* a read: the location stays, the outcome is a value or an exception
Returned(q, h, r, ps) ==
    [NoEffect(q, h) EXCEPT !.raised = r.raised, !.ret = r.v, !.paramString = ps]

\* window.location.hash.slice(1)
HashContent(h) == Slice(LocationHash(h), 1)
\* the path of a routed hash: what stands before its first "?" (index.ts 115-117)
HashPath(h) ==
    LET cur == HashContent(h)
        queryIndex == IndexOf(cur, "?")
    IN  IF queryIndex >= 1 THEN SubSeq(cur, 1, queryIndex - 1) ELSE cur

\* a slip: the routed hash read as a plain one
GetParamString_NoRouting(w, opt, q, h) ==
    IF ~w THEN <<>>
    ELSE IF opt.useHash THEN HashContent(h) ELSE LocationSearch(q)
\* getParamString(options) (index.ts 47-61); w: there is a window
GetParamString(w, opt, q, h) ==
    IF ~w THEN <<>>
    ELSE IF opt.useHash
         THEN LET cur == HashContent(h)
                  queryIndex == IndexOf(cur, "?")
              IN  IF opt.hashRouting
                  THEN (IF queryIndex >= 1 THEN Slice(cur, queryIndex) ELSE <<>>)
                  ELSE cur
         ELSE LocationSearch(q)

\* fallback() of decodeFromQuery: the default given, else codec.decode({})
Fallback(c, defaultValue, clock) ==
    IF defaultValue # Undef THEN {Ret(defaultValue)} ELSE Decode(c, EmptyMap, clock)

\* a slip: the decode outside try/catch
DecodeFromQuery_NoCatch(w, c, opt, defaultValue, q, h, clock) ==
    IF ~w THEN Fallback(c, defaultValue, clock)
    ELSE LET paramString == GetParamString(w, opt, q, h) IN
         IF paramString = <<>> THEN Fallback(c, defaultValue, clock)
         ELSE Decode(c, UrlSearchParamsToStringMap(NewURLSearchParams(paramString)), clock)
\* decodeFromQuery(codec, options, defaultValue) (index.ts 66-94): the set
\* of its outcomes
DecodeFromQuery(w, c, opt, defaultValue, q, h, clock) ==
    IF ~w THEN Fallback(c, defaultValue, clock)
    ELSE LET paramString == GetParamString(w, opt, q, h) IN
         IF paramString = <<>> THEN Fallback(c, defaultValue, clock)
         ELSE LET stringMap == UrlSearchParamsToStringMap(NewURLSearchParams(paramString)) IN
              UNION { IF r.raised THEN Fallback(c, defaultValue, clock) ELSE {r} :
                      r \in Decode(c, stringMap, clock) }

\* getParams() of useUrlSyncedState (react index.ts 121-142): the
\* parameters of the location for the mode, none without a window
GetParams(w, opt, q, h) ==
    IF ~w THEN NewURLSearchParams(<<>>)
    ELSE IF opt.useHash
         THEN LET cur == HashContent(h)
                  queryIndex == IndexOf(cur, "?")
              IN  IF opt.hashRouting
                  THEN NewURLSearchParams(IF queryIndex >= 1 THEN Slice(cur, queryIndex)
                                          ELSE <<>>)
                  ELSE NewURLSearchParams(cur)
         ELSE NewURLSearchParams(LocationSearch(q))

\* getInitialValue() of useUrlSyncedState (react index.ts 144-157): the
\* decoded parameters, the default when the decode raises; the set of its
\* outcomes
GetInitialValue(w, c, opt, defaultValue, q, h, clock) ==
    { IF r.raised THEN Ret(defaultValue) ELSE r :
        r \in Decode(c, UrlSearchParamsToStringMap(GetParams(w, opt, q, h)), clock) }

\* the query string of the encoded value: params.toString()
QueryStringOf(encoded) == ParamsToString(StringMapToURLSearchParams(encoded))

\* url.search !== `?${queryString}`
SearchDiffers(q, queryString) == LocationSearch(q) # <<"?">> \o queryString

\* a slip: pushState as the default
UpdateSearch_DefaultPush(q, h, history, queryString) ==
    IF SearchDiffers(q, queryString)
    THEN Effect(SetSearch(queryString), h,
                <<IF history = "replace" THEN "replaceState" ELSE "pushState">>)
    ELSE Effect(q, h, <<>>)
\* a slip: the URL rebuilt from the query alone
UpdateSearch_DropsHash(q, h, history, queryString) ==
    IF SearchDiffers(q, queryString)
    THEN Effect(SetSearch(queryString), <<>>,
                <<IF history \in {"default", "replace"} THEN "replaceState" ELSE "pushState">>)
    ELSE Effect(q, h, <<>>)
\* the search branch of updateQuery (index.ts 129-137)
UpdateSearch(q, h, history, queryString) ==
    IF SearchDiffers(q, queryString)
    THEN Effect(SetSearch(queryString), h,
                <<IF history \in {"default", "replace"} THEN "replaceState" ELSE "pushState">>)
    ELSE Effect(q, h, <<>>)

\* a slip: the hash committed through the history, the query dropped
UpdateHash_ViaHistory(q, h, queryString) ==
    LET newHash == <<"#">> \o queryString IN
    IF newHash # LocationHash(h)
    THEN Effect(<<>>, SetHash(newHash), <<"replaceState">>)
    ELSE Effect(q, h, <<>>)
\* a slip: the hash assigned without the test
UpdateHash_AlwaysAssigns(q, h, queryString) ==
    Effect(q, SetHash(<<"#">> \o queryString), <<"hash">>)
\* the plain hash branch (index.ts 123-126)
UpdateHash(q, h, queryString) ==
    LET newHash == <<"#">> \o queryString IN
    IF newHash # LocationHash(h)
    THEN Effect(q, SetHash(newHash), <<"hash">>)
    ELSE Effect(q, h, <<>>)

\* a slip: the path dropped
UpdateHashRouting_DropsPath(q, h, queryString) ==
    LET newHash == IF queryString # <<>> THEN <<"?">> \o queryString ELSE <<>>
    IN  IF <<"#">> \o newHash # LocationHash(h)
        THEN Effect(q, SetHash(<<"#">> \o newHash), <<"hash">>)
        ELSE Effect(q, h, <<>>)
\* the hash-routing branch (index.ts 115-121)
UpdateHashRouting(q, h, queryString) ==
    LET path == HashPath(h)
        newHash == IF queryString # <<>> THEN path \o <<"?">> \o queryString ELSE path
    IN  IF <<"#">> \o newHash # LocationHash(h)
        THEN Effect(q, SetHash(<<"#">> \o newHash), <<"hash">>)
        ELSE Effect(q, h, <<>>)

\* updateQuery(codec, value, options) of @kvkit/query on a page whose URL
\* has query q and fragment h
UpdateQuery(c, v, opt, q, h) ==
    LET encoded == Encode(c, v) IN
    IF encoded.raised THEN [Effect(q, h, <<>>) EXCEPT !.raised = TRUE]
    ELSE LET queryString == QueryStringOf(encoded.v) IN
         IF opt.useHash
         THEN IF opt.hashRouting
              THEN UpdateHashRouting(q, h, queryString)
              ELSE UpdateHash(q, h, queryString)
         ELSE UpdateSearch(q, h, opt.history, queryString)

\* a slip: no test for the window; the value is encoded and the read of
\* window.location raises
UpdateQueryNoWindow_Unguarded(q, h) == [Effect(q, h, <<>>) EXCEPT !.raised = TRUE]
\* updateQuery without a window (index.ts 104-106): returns at once
UpdateQueryNoWindow(q, h) == NoEffect(q, h)

\* the legacy calls without a window (part_001 47-49, 58-60): an error
\* before anything else is done
LegacyNoWindow(q, h) == [NoEffect(q, h) EXCEPT !.raised = TRUE]

\* getCurrentQuery(codec) of the legacy API (part_001 46-52): the set of
\* its outcomes; codec.decode is not guarded
GetCurrentQuery(w, c, q, clock) ==
    IF ~w THEN {Throw}
    ELSE Decode(c, UrlSearchParamsToStringMap(NewURLSearchParams(LocationSearch(q))), clock)

\* a slip: the equality test of the newer API
LegacyUpdateQuery_PreCheck(c, v, replace, q, h) ==
    LET encoded == Encode(c, v) IN
    IF encoded.raised THEN [Effect(q, h, <<>>) EXCEPT !.raised = TRUE]
    ELSE UpdateSearch(q, h, IF replace THEN "replace" ELSE "push", QueryStringOf(encoded.v))
\* the legacy updateQuery(codec, value, {replace}) (part_001 57-71)
LegacyUpdateQuery(c, v, replace, q, h) ==
    LET encoded == Encode(c, v) IN
    IF encoded.raised THEN [Effect(q, h, <<>>) EXCEPT !.raised = TRUE]
    ELSE Effect(SetSearch(QueryStringOf(encoded.v)), h,
                <<IF replace THEN "replaceState" ELSE "pushState">>)

----------------------------------------------------------------------------
(* The page: calls of updateQuery on the location of the window *)

\* codecs and values the page synchronises with its URL
UrlCodecs ==
    {PrefixCodec(nsU, cDot), PrefixCodec(nsS, cDot), FlatCodec, MockCodec, DateCodec(cValue)}
vEmpty == Obj(<<>>)
vName == Obj(<< <<kN, Str(<<"B">>)>> >>)
vQuery == Obj(<< <<kQ, Str(<<"a", " ", "b">>)>>, <<kA, Arr(<<Num(1)>>)>> >>)
cCategory == <<"c", "a", "t", "e", "g", "o", "r", "y">>
cTablet == <<"t", "a", "b", "l", "e", "t">>
cElectronics == <<"e", "l", "e", "c", "t", "r", "o", "n", "i", "c", "s">>
vTablet == Obj(<< <<cName, Str(cTablet)>>, <<cCategory, Str(cElectronics)>> >>)
vJane == Obj(<< <<cName, Str(cJane)>>, <<cAge, Num(25)>> >>)
vJohn30 == Obj(<< <<cName, Str(cJohn)>>, <<cAge, Num(30)>> >>)
UrlValues(c) ==
    IF c = PrefixCodec(nsU, cDot) THEN {vEmpty, vName}
    ELSE IF c = PrefixCodec(nsS, cDot) THEN {vQuery}
    ELSE IF c = MockCodec THEN {vJane}
    ELSE IF c = DateCodec(cValue) THEN {InvalidDate}
    ELSE {vEmpty, vName, vTablet}

\* codecs the page reads its URL with, and the defaults it gives: none, an
\* object, null
ReadCodecs ==
    {PrefixCodec(nsU, cDot), PrefixCodec(nsS, cDot), FlatCodec, MockCodec, StrictCodec}
vDefault == Obj(<< <<cName, Str(<<"d", "e", "f", "a", "u", "l", "t">>)>>, <<cAge, Num(99)>> >>)
DefaultValues == {Undef, vDefault}
AllOptions ==
    {Options(hi, uh, hr) : hi \in {"default", "replace", "push"},
                           uh \in BOOLEAN, hr \in BOOLEAN}

\* queries and fragments of the URL the page is opened with
cQueryN == <<"?", "n", "=", "B">>
cQueryUN == <<"?", "u", ".", "n", "=", "B">>
cQueryXN == <<"?", "x", "=", "1", "&", "n", "=", "B">>
cHashN == <<"#", "n", "=", "B">>
cHashP == <<"#", "/", "p">>
cHashPN == <<"#", "/", "p", "?", "n", "=", "B">>
cQueryJohn30 == <<"?">> \o cName \o <<"=">> \o cJohn \o <<"&">> \o cAge \o <<"=", "3", "0">>
cQueryJohn == <<"?">> \o cName \o <<"=">> \o cJohn
cQueryAgeX == <<"?">> \o cAge \o <<"=", "x">>
cLaptop == <<"l", "a", "p", "t", "o", "p">>
cProducts == <<"/", "p", "r", "o", "d", "u", "c", "t", "s">>
cHashProducts ==
    <<"#">> \o cProducts \o <<"?">> \o cName \o <<"=">> \o cLaptop
    \o <<"&">> \o cCategory \o <<"=">> \o cElectronics
cHashAgeX == <<"#">> \o cAge \o <<"=", "x">>
InitSearches == {<<>>, <<"?">>, cQueryN, cQueryUN, cQueryXN, cQueryJohn30, cQueryJohn, cQueryAgeX}
InitHashes == {<<>>, cHashN, cHashP, cHashPN, cHashProducts, cHashAgeX}

\* no codec is exercised on its own while the page runs
CodecIdle ==
    /\ codec = FlatCodec
    /\ value = Undef
    /\ other = NoOther
    /\ data = EmptyMap
    /\ out = Ret(Undef)
    /\ prev = Ret(Undef)
    /\ ops = <<>>
    /\ now = 0

\* the page keeps its options; it is opened with any query when it
\* synchronises through the query, with any fragment when through the hash
InitUrl ==
    /\ CodecIdle
    /\ BridgeIdle
    /\ HooksIdle
    /\ hasWindow \in BOOLEAN
    /\ options \in AllOptions
    /\ search \in (IF ~hasWindow THEN {<<>>}
                   ELSE IF options.useHash THEN {<<>>, cQueryN} ELSE InitSearches)
    /\ hash \in (IF ~hasWindow THEN {<<>>}
                 ELSE IF options.useHash THEN InitHashes ELSE {<<>>, cHashPN})
    /\ histLen = (IF hasWindow THEN 1 ELSE 0)
    /\ log = <<>>

\* the record of a call: its arguments and what it did; n tells a call from
\* the one before it
Call(fn, c, v, opt, eff) ==
    [fn |-> fn, c |-> c, v |-> v, opt |-> opt,
     calls |-> eff.calls, raised |-> eff.raised,
     encoded |-> eff.encoded, ret |-> eff.ret, paramString |-> eff.paramString,
     n |-> IF log = <<>> THEN 0 ELSE 1 - log[1].n]

\* entries the calls add to the session history: one for a pushState, one
\* for an assignment of location.hash that changes the URL
Pushed(eff) ==
    Cardinality({i \in DOMAIN eff.calls : eff.calls[i] = "pushState"})
    + (IF eff.hash # hash THEN 1 ELSE 0)

\* the page's effect on the location
Commit(eff) ==
    /\ histLen + Pushed(eff) <= MaxHistory
    /\ search' = eff.search
    /\ hash' = eff.hash
    /\ histLen' = histLen + Pushed(eff)

\* updateQuery(codec, value, options): nothing without a window
UpdateQueryCall ==
    \E c \in UrlCodecs : \E v \in UrlValues(c) :
        \E eff \in {IF hasWindow THEN UpdateQuery(c, v, options, search, hash)
                    ELSE UpdateQueryNoWindow(search, hash)} :
            /\ Commit(eff)
            /\ log' = <<Call("updateQuery", c, v, options, eff)>>
            /\ UNCHANGED <<hasWindow, options>>
            /\ UNCHANGED codecVars
            /\ UNCHANGED bridgeVars
            /\ UNCHANGED hookVars

\* decodeFromQuery(codec, options, defaultValue)
DecodeFromQueryCall ==
    \E c \in ReadCodecs, defaultValue \in DefaultValues :
        \E r \in DecodeFromQuery(hasWindow, c, options, defaultValue, search, hash, now) :
            \E eff \in {Returned(search, hash, r,
                                 GetParamString(hasWindow, options, search, hash))} :
                /\ Commit(eff)
                /\ log' = <<Call("decodeFromQuery", c, defaultValue, options, eff)>>
                /\ UNCHANGED <<hasWindow, options>>
                /\ UNCHANGED codecVars
                /\ UNCHANGED bridgeVars
                /\ UNCHANGED hookVars

\* the legacy updateQuery(codec, value, {replace}): an error without a
\* window; a page of the query mode calls it, with replace when its options
\* say so
LegacyUpdateQueryCall ==
    \E c \in UrlCodecs, replace \in {options.history = "replace"} : \E v \in UrlValues(c) :
        \E eff \in {IF hasWindow THEN LegacyUpdateQuery(c, v, replace, search, hash)
                    ELSE LegacyNoWindow(search, hash)} :
            /\ ~options.useHash
            /\ Commit(eff)
            /\ log' = <<Call("legacyUpdateQuery", c, v,
                             Options(IF replace THEN "replace" ELSE "push", FALSE, FALSE), eff)>>
            /\ UNCHANGED <<hasWindow, options>>
            /\ UNCHANGED codecVars
            /\ UNCHANGED bridgeVars
            /\ UNCHANGED hookVars

\* the legacy getCurrentQuery(codec), on a page of the query mode
GetCurrentQueryCall ==
    \E c \in ReadCodecs :
        \E r \in GetCurrentQuery(hasWindow, c, search, now) :
            \E eff \in {Returned(search, hash, r, LocationSearch(search))} :
                /\ ~options.useHash
                /\ Commit(eff)
                /\ log' = <<Call("getCurrentQuery", c, Undef, Options("default", FALSE, FALSE), eff)>>
                /\ UNCHANGED <<hasWindow, options>>
                /\ UNCHANGED codecVars
                /\ UNCHANGED bridgeVars
                /\ UNCHANGED hookVars

\* a component that calls useUrlSyncedState(codec, defaultValue, options)
\* is rendered for the first time: useState(getInitialValue)
UseUrlSyncedStateCall ==
    \E c \in ReadCodecs, defaultValue \in DefaultValues \ {Undef} :
        \E r \in GetInitialValue(hasWindow, c, options, defaultValue, search, hash, now) :
            \E eff \in {Returned(search, hash, r,
                                 GetParamString(hasWindow, options, search, hash))} :
                /\ Commit(eff)
                /\ log' = <<Call("useUrlSyncedState", c, defaultValue, options, eff)>>
                /\ UNCHANGED <<hasWindow, options>>
                /\ UNCHANGED codecVars
                /\ UNCHANGED bridgeVars
                /\ UNCHANGED hookVars

----------------------------------------------------------------------------
(* The conversions between a parameter string, a URLSearchParams and a     *)
(* string map, applied one after the other to an input of any of the three *)
(* kinds.                                                                  *)

cNameJohnNameJane == cName \o <<"=">> \o cJohn \o <<"&">> \o cName \o <<"=">> \o cJane

\* parameter strings: repeated names, names without a value, empty
\* segments, escapes, a leading "?"
ParamTexts ==
    { <<>>, cNameJohnNameJane,
      <<"a", "=", "1", "&", "k", "=", "2", "&", "a", "=", "3">>,
      <<"a", "=", "1", "&", "k", "=", "2">>,
      <<"a">>, <<"a", "=">>, <<"=", "1">>, <<"a", "=", "1", "&", "&", "k">>,
      <<"a", "=", "k", "=", "2">>, <<"a", "=", "%", "2", "6">>,
      <<"a", "+", "k", "=", "1">>, <<"?", "a", "=", "1">>,
      <<"a", "=", "1", "&", "A", "=", "2">>, <<"a", "=", "1", "&", "a", "=", "1">> }

\* parameter collections built pair by pair (params.append)
ParamPairs == {<<k, v>> : k \in {kA, kK}, v \in {<<>>, <<"1">>, <<"2">>}}
ParamLists ==
    {<<>>} \cup {<<x>> : x \in ParamPairs}
    \cup {<<x, y>> : x \in ParamPairs, y \in ParamPairs}
    \cup {<<x, y, z>> : x \in ParamPairs, y \in ParamPairs, z \in ParamPairs}

\* objects handed over as string maps: values that are strings (the empty
\* one included), null or undefined
MapValues == {Str(<<"1">>), Str(<<>>), Null, Undef}
MapKeys == {kA, kK, kN}
NullishMaps ==
    {EmptyMap} \cup {<< <<k, v>> >> : k \in MapKeys, v \in MapValues}
    \cup {m \in {<< <<k1, v1>>, <<k2, v2>> >> :
                    k1 \in MapKeys, k2 \in MapKeys, v1 \in MapValues, v2 \in MapValues} :
            m[1][1] # m[2][1]}
    \cup { << <<kA, Str(<<"1">>)>>, <<kK, Null>>, <<kN, Undef>> >>,
           << <<cName, Str(cJohn)>>, <<cAge, Null>>, <<kK, Undef>>, <<kN, Str(<<"U">>)>> >> }

InitBridge ==
    /\ UrlIdle
    /\ HooksIdle
    /\ codec = FlatCodec
    /\ value = Undef
    /\ other = NoOther
    /\ out = Ret(Undef)
    /\ prev = Ret(Undef)
    /\ now = 0
    /\ ops = <<>>
    /\ \/ paramText \in ParamTexts /\ paramList = <<>> /\ data = EmptyMap
       \/ paramText = <<>> /\ paramList \in ParamLists /\ data = EmptyMap
       \/ paramText = <<>> /\ paramList = <<>> /\ data \in NullishMaps

\* paramList = new URLSearchParams(paramText)
NewParams ==
    /\ Len(ops) < MaxOps
    /\ paramList' = NewURLSearchParams(paramText)
    /\ ops' = Append(ops, "parse")
    /\ UNCHANGED <<codec, value, other, data, out, prev, now, paramText>>
    /\ UNCHANGED urlVars
    /\ UNCHANGED hookVars

\* data = urlSearchParamsToStringMap(paramList)
ToStringMap ==
    /\ Len(ops) < MaxOps
    /\ data' = UrlSearchParamsToStringMap(paramList)
    /\ ops' = Append(ops, "toMap")
    /\ UNCHANGED <<codec, value, other, out, prev, now, paramText, paramList>>
    /\ UNCHANGED urlVars
    /\ UNCHANGED hookVars

\* paramList = stringMapToURLSearchParams(data)
ToParams ==
    /\ Len(ops) < MaxOps
    /\ paramList' = StringMapToURLSearchParams(data)
    /\ ops' = Append(ops, "toParams")
    /\ UNCHANGED <<codec, value, other, data, out, prev, now, paramText>>
    /\ UNCHANGED urlVars
    /\ UNCHANGED hookVars

\* paramText = paramList.toString()
ToParamString ==
    /\ Len(ops) < MaxOps
    /\ paramText' = ParamsToString(paramList)
    /\ ops' = Append(ops, "toString")
    /\ UNCHANGED <<codec, value, other, data, out, prev, now, paramList>>
    /\ UNCHANGED urlVars
    /\ UNCHANGED hookVars

----------------------------------------------------------------------------
(* Specifications *)

----------------------------------------------------------------------------
(* useLocalStorageCodec(codec, key, defaultValue): a component that keeps  *)
(* a value in one slot of window.localStorage.                             *)

\* codec.decode on what JSON.parse returned: the entries of an object; on
\* null the read of a property or of the entries raises
DecodeParsed(c, parsed, clock) ==
    IF parsed.t = "obj" THEN Decode(c, parsed.o, clock) ELSE {Throw}

\* a slip: the read outside try/catch
ReadStoredValue_NoCatch(w, c, defaultValue, stored, clock) ==
    IF ~w THEN {Ret(defaultValue)}
    ELSE IF stored = Null THEN {Ret(defaultValue)}
    ELSE LET parsed == JSONparse(stored) IN
         IF parsed.raised THEN {Throw} ELSE DecodeParsed(c, parsed.v, clock)
\* the initializer of the value state (react index.ts 64-76): the set of
\* its outcomes; stored is localStorage.getItem(key)
ReadStoredValue(w, c, defaultValue, stored, clock) ==
    IF ~w THEN {Ret(defaultValue)}
    ELSE IF stored = Null THEN {Ret(defaultValue)}
    ELSE LET parsed == JSONparse(stored) IN
         IF parsed.raised THEN {Ret(defaultValue)}
         ELSE { IF r.raised THEN Ret(defaultValue) ELSE r :
                  r \in DecodeParsed(c, parsed.v, clock) }

\* what a call of the setter leaves: the value held, the slot, whether it
\* raised, whether console.error was called
Stored(v, stored, raised, logged) ==
    [value |-> v, slot |-> stored, raised |-> raised, logged |-> logged]

\* a slip: the value set after the write
SetStoredValue_WriteFirst(w, c, newValue, held, stored, quota) ==
    LET encoded == Encode(c, newValue) IN
    IF ~w THEN Stored(newValue, stored, FALSE, FALSE)
    ELSE IF encoded.raised \/ quota THEN Stored(held, stored, FALSE, TRUE)
    ELSE Stored(newValue, JSONstringify(Obj(encoded.v)), FALSE, FALSE)
\* setStoredValue(newValue) (react index.ts 78-90); held: the value before
\* the call; quota: localStorage.setItem throws
SetStoredValue(w, c, newValue, held, stored, quota) ==
    LET encoded == Encode(c, newValue) IN
    IF ~w THEN Stored(newValue, stored, FALSE, FALSE)
    ELSE IF encoded.raised \/ quota THEN Stored(newValue, stored, FALSE, TRUE)
    ELSE Stored(newValue, JSONstringify(Obj(encoded.v)), FALSE, FALSE)

\* codecs, values and defaults of the component
StorageCodecs == {MockCodec, StrictCodec, FlatCodec, DateCodec(cValue)}
vFive == Obj(<< <<kN, Str(<<"5">>)>> >>)
StorageValues(c) ==
    IF c.kind \in {"mock", "strict"} THEN {vJane, vJohn30}
    ELSE IF c.kind = "date" THEN {DateV(0), InvalidDate}
    ELSE {vEmpty, vName, vFive}
StorageDefaults(c) == IF c.kind = "date" THEN {DateV(1)} ELSE {vDefault}

\* what the slot holds when the page is opened: nothing, a text that is no
\* JSON, the JSON null, an object the strict codec refuses, or what an
\* earlier visit stored
cInvalidJson == <<"i", "n", "v", "a", "l", "i", "d", "-", "j", "s", "o", "n">>
cAgeXJson == <<"{", "\"">> \o cAge \o <<"\"", ":", "\"", "x", "\"", "}">>
InitSlots(c) ==
    {Null, Str(cInvalidJson), Str(cNull), Str(cAgeXJson)}
    \cup {JSONstringify(Obj(Encode(c, v).v)) : v \in {x \in StorageValues(c) : ~Encode(c, x).raised}}

InitStorage ==
    /\ BridgeIdle
    /\ codec \in StorageCodecs
    /\ value = Undef
    /\ other = NoOther
    /\ data = EmptyMap
    /\ out = Ret(Undef)
    /\ prev = Ret(Undef)
    /\ ops = <<>>
    /\ now \in 0..1
    /\ hasWindow \in BOOLEAN
    /\ options = Options("default", FALSE, FALSE)
    /\ search = <<>>
    /\ hash = <<>>
    /\ histLen = 0
    /\ log = <<>>
    /\ slot \in (IF hasWindow THEN InitSlots(codec) ELSE {Null})
    /\ hookDefault \in StorageDefaults(codec)
    /\ hookValue = Undef
    /\ hookLog = <<>>
    /\ state = [value |-> Undef, error |-> Undef, loading |-> FALSE]
    /\ loads = <<>>

\* the record of a call of the hook: what it was given, the slot before it
HookCall(fn, v, before, raised, logged) ==
    [fn |-> fn, v |-> v, before |-> before, raised |-> raised, logged |-> logged]

\* the component is mounted: useState runs its initializer (also after a
\* reload of the page)
MountStorage ==
    \E r \in ReadStoredValue(hasWindow, codec, hookDefault, slot, now) :
        /\ hookValue' = r.v
        /\ hookLog' = <<HookCall("mount", hookDefault, slot, r.raised, FALSE)>>
        /\ UNCHANGED <<slot, hookDefault, state, loads>>
        /\ UNCHANGED codecVars
        /\ UNCHANGED urlVars
        /\ UNCHANGED bridgeVars

\* the component calls the setter with a new value
SetStoredValueCall ==
    \E newValue \in StorageValues(codec), quota \in BOOLEAN :
        \E r \in {SetStoredValue(hasWindow, codec, newValue, hookValue, slot, quota)} :
            /\ hookLog # <<>>
            /\ quota => hasWindow
            /\ hookValue' = r.value
            /\ slot' = r.slot
            /\ hookLog' = <<HookCall(IF quota THEN "setFull" ELSE "set",
                                     newValue, slot, r.raised, r.logged)>>
            /\ UNCHANGED <<hookDefault, state, loads>>
            /\ UNCHANGED codecVars
            /\ UNCHANGED urlVars
            /\ UNCHANGED bridgeVars

----------------------------------------------------------------------------
(* useCodecValue(codec, source, defaultValue): a component that loads a    *)
(* value from a source. Every render with a new source (or codec) makes a  *)
(* new loadValue, which the effect runs; a run that awaits its source is   *)
(* resumed later, in any order with the other runs.                        *)

\* what source() does: it returns data or a promise that resolves with
\* data, it returns a promise that rejects, or it throws
Resolves(d) == [kind |-> "resolve", data |-> d]
Rejects == [kind |-> "reject", data |-> EmptyMap]
Throws == [kind |-> "throw", data |-> EmptyMap]

\* the error caught by the i-th run of loadValue
Err(i) == [t |-> "error", load |-> i]

\* useState({value: defaultValue, error: undefined, loading: true})
InitialState(defaultValue) == [value |-> defaultValue, error |-> Undef, loading |-> TRUE]

\* the catch of loadValue (react index.ts 40-46)
Failed(st, i) == [st EXCEPT !.error = Err(i), !.loading = FALSE]

\* loadValue up to its await (react index.ts 28-32): loading is set, the
\* source is called; a source that throws is caught at once
LoadValueStart(st, src, i) ==
    LET st1 == [st EXCEPT !.loading = TRUE, !.error = Undef] IN
    IF src.kind = "throw" THEN Failed(st1, i) ELSE st1

\* a run of loadValue: its source, whether it still awaits it, and what
\* codec.decode will make of the data the source resolves with (the codec
\* is the one of the closure, and its decode depends on the data alone)
Load(c, src, clock) ==
    [src |-> src,
     pc |-> IF src.kind = "throw" THEN "done" ELSE "awaiting",
     decoded |-> IF src.kind = "resolve" THEN Decode(c, src.data, clock) ELSE {}]

\* a slip: the catch leaves loading as it is
LoadValueResume_KeepsLoading(st, ld, i) ==
    IF ld.src.kind = "reject" THEN {[st EXCEPT !.error = Err(i)]}
    ELSE { IF r.raised THEN [st EXCEPT !.error = Err(i)]
           ELSE [value |-> r.v, error |-> Undef, loading |-> FALSE] : r \in ld.decoded }
\* loadValue after its await (react index.ts 32-46): the states the run ld
\* may leave
LoadValueResume(st, ld, i) ==
    IF ld.src.kind = "reject" THEN {Failed(st, i)}
    ELSE { IF r.raised THEN Failed(st, i)
           ELSE [value |-> r.v, error |-> Undef, loading |-> FALSE] : r \in ld.decoded }

\* runs of loadValue a component makes
MaxLoads == 2

\* codecs and sources of the component
LoadCodecs == {MockCodec, StrictCodec}
cAgeXMap == << <<cAge, Str(<<"x">>)>> >>
Sources ==
    {Resolves(MockCodecEncode(vJane).v), Resolves(MockCodecEncode(vJohn30).v),
     Resolves(cAgeXMap), Rejects, Throws}

\* the component is rendered for the first time; its effect has not run
InitLoads ==
    /\ BridgeIdle
    /\ UrlIdle
    /\ codec \in LoadCodecs
    /\ value = Undef
    /\ other = NoOther
    /\ data = EmptyMap
    /\ out = Ret(Undef)
    /\ prev = Ret(Undef)
    /\ ops = <<>>
    /\ now = 0
    /\ slot = Null
    /\ hookDefault = vDefault
    /\ hookValue = Undef
    /\ hookLog = <<>>
    /\ state = InitialState(hookDefault)
    /\ loads = <<>>

\* useEffect(() => { loadValue() }, [loadValue]): after the first render,
\* and after every render with a new source
RunLoadValue ==
    \E src \in Sources :
        /\ Len(loads) < MaxLoads
        /\ state' = LoadValueStart(state, src, Len(loads) + 1)
        /\ loads' = Append(loads, Load(codec, src, now))
        /\ UNCHANGED <<slot, hookDefault, hookValue, hookLog>>
        /\ UNCHANGED codecVars
        /\ UNCHANGED urlVars
        /\ UNCHANGED bridgeVars

\* the i-th run is resumed after its await
ResumeLoadValue(i) ==
    /\ i \in DOMAIN loads
    /\ loads[i].pc = "awaiting"
    /\ state' \in LoadValueResume(state, loads[i], i)
    /\ loads' = [loads EXCEPT ![i].pc = "done"]
    /\ UNCHANGED <<slot, hookDefault, hookValue, hookLog>>
    /\ UNCHANGED codecVars
    /\ UNCHANGED urlVars
    /\ UNCHANGED bridgeVars

NextCodec ==
    \/ EncodeValue
    \/ MergeOther
    \/ DecodeData
    \/ EncodeDecoded
    \/ Tick

SpecCodec == InitCodec /\ [][NextCodec]_vars

NextUrl ==
    \/ UpdateQueryCall
    \/ DecodeFromQueryCall
    \/ LegacyUpdateQueryCall
    \/ GetCurrentQueryCall
    \/ UseUrlSyncedStateCall

SpecUrl == InitUrl /\ [][NextUrl]_vars

NextBridge ==
    \/ NewParams
    \/ ToStringMap
    \/ ToParams
    \/ ToParamString

SpecBridge == InitBridge /\ [][NextBridge]_vars

NextStorage ==
    \/ MountStorage
    \/ SetStoredValueCall

SpecStorage == InitStorage /\ [][NextStorage]_vars

NextLoads ==
    \/ RunLoadValue
    \/ \E i \in 1..MaxLoads : ResumeLoadValue(i)

SpecLoads == InitLoads /\ [][NextLoads]_vars

\* a run that awaits a source that settles is resumed by the event loop
SpecLoadsFair ==
    /\ InitLoads
    /\ [][NextLoads]_vars
    /\ \A i \in 1..MaxLoads : WF_vars(ResumeLoadValue(i))

----------------------------------------------------------------------------
(* Claims about the codecs (checked under SpecCodec) *)

\* the run encoded the value and decoded the encoded map
RoundTripDone == ops = <<"encode", "decode">>
\* the run encoded the value, merged the other map in and decoded the result
MergedDecodeDone == ops = <<"encode", "merge", "decode">>
\* the run started by decoding the empty map
FromEmptyMap == value = Undef /\ other = RawOther(EmptyMap)

IsPrefixOf(p, q) == StartsWith(q, p)
\* no key of the map begins with the prefix
Unprefixed(m, prefix) == \A k \in Keys(m) : ~StartsWith(k, prefix)
\* the outcome of decoding the codec's own encoded map alone
OwnDecoded == PrefixCodecDecode(codec, Encode(codec, value).v)

\* C3 as stated: two prefix codecs whose prefixes differ share a merged map
\* (with extra unprefixed keys), and decoding with one yields exactly the
\* fields it encoded.
C3_IsolationAnyDistinctPrefixes ==
    (/\ MergedDecodeDone
     /\ codec.kind = "prefix"
     /\ other.kind = "codec"
     /\ other.c.prefix # codec.prefix
     /\ Unprefixed(other.extra, codec.prefix))
    => (/\ ~out.raised
        /\ Keys(out.v.o) = Keys(value.o)
        /\ out = OwnDecoded)

\* C3 amended: when neither prefix is a prefix of the other, decoding the
\* merged map with a codec yields exactly the fields that codec encoded: no
\* key of the other codec and no unprefixed key produces a field.
C3_IsolationOfUnnestedPrefixes ==
    (/\ MergedDecodeDone
     /\ codec.kind = "prefix"
     /\ other.kind = "codec"
     /\ ~IsPrefixOf(other.c.prefix, codec.prefix)
     /\ ~IsPrefixOf(codec.prefix, other.c.prefix)
     /\ Unprefixed(other.extra, codec.prefix))
    => (/\ ~out.raised
        /\ Keys(out.v.o) = Keys(value.o)
        /\ out = OwnDecoded)

C3_Witness ==
    /\ MergedDecodeDone
    /\ codec = PrefixCodec(nsU, cDot)
    /\ other.kind = "codec"
    /\ other.c = PrefixCodec(nsS, cDot)
    /\ other.extra # EmptyMap
    /\ Len(data) > Len(value.o) + Len(other.extra)
    /\ value.o # <<>>
    /\ Keys(out.v.o) = Keys(value.o)

\* no string field of the record holds a JSON text
NoJsonTextField(v) ==
    \A i \in DOMAIN v.o : v.o[i][2].t = "str" => JSONparse(v.o[i][2]).raised

C5_FlatTypeAmbiguity ==
    (codec.kind = "flat" /\ RoundTripDone) =>
        /\ ~out.raised
        /\ \A i \in DOMAIN value.o :
              LET field == value.o[i][2]
                  got == Get(out.v.o, value.o[i][1])
              IN  field.t = "str" =>
                    IF JSONparse(field).raised
                    THEN got = field
                    ELSE got = JSONparse(field).v /\ got # field
        /\ value = Obj(<< <<kN, Str(<<"5">>)>> >>) => out.v = Obj(<< <<kN, Num(5)>> >>)
        /\ value = Obj(<< <<kN, Str(<<"D", "e", "v">>)>> >>) => out.v = value

C5_Witness ==
    /\ codec.kind = "flat"
    /\ RoundTripDone
    /\ value = Obj(<< <<kN, Str(<<"5">>)>> >>)
    /\ out = Ret(Obj(<< <<kN, Num(5)>> >>))

\* C6: jsonCodec(key).decode(jsonCodec(key).encode(v)) = v for every
\* JSON-safe v (the empty string, 0, false and null included), and encode(v)
\* is the one-entry map {key: JSON.stringify(v)}.
C6_JsonRoundTrip ==
    (codec.kind = "json" /\ RoundTripDone) =>
        /\ out = Ret(value)
        /\ Len(data) = 1
        /\ data[1] = <<codec.key, Str(StringifyChars(value))>>
        /\ value = Obj(<< <<kN, Str(<<"A", "l">>)>>, <<kA, Num(30)>> >>) =>
             data[1][2].s = <<"{", "\"", "n", "\"", ":", "\"", "A", "l", "\"", ",",
                              "\"", "a", "\"", ":", "3", "0", "}">>

C6_Witness ==
    /\ codec = JsonCodec(cData)
    /\ RoundTripDone
    /\ value = Num(0)
    /\ data = << <<cData, Str(<<"0">>)>> >>
    /\ out = Ret(Num(0))

\* no element of the array of strings holds a comma
NoCommaItem(v) == \A i \in DOMAIN v.a : \A j \in DOMAIN v.a[i].s : v.a[i].s[j] # ","

\* C7 as stated: stringArrayCodec.decode(stringArrayCodec.encode(a)) = a for
\* every array of strings.
C7_StringArrayRoundTripAnyArray ==
    (codec.kind = "stringArray" /\ RoundTripDone) => out = Ret(value)

\* C7 amended: the round trip holds for every array of comma-free strings
\* other than [""]; the empty array encodes to the empty string, and the
\* empty string or a missing key decodes to the empty array, not to [""].
C7_StringArrayRoundTrip ==
    codec.kind = "stringArray" =>
        /\ (RoundTripDone /\ NoCommaItem(value) /\ value # Arr(<<Str(<<>>)>>))
              => out = Ret(value)
        /\ (ops # <<>> /\ ops[1] = "encode" /\ value = Arr(<<>>))
              => data = << <<codec.key, Str(<<>>)>> >>
        /\ (LastOp = "decode" /\ ~Truthy(Get(data, codec.key)))
              => out = Ret(Arr(<<>>))

C7_Witness ==
    /\ codec.kind = "stringArray"
    /\ RoundTripDone
    /\ value = Arr(<<Str(<<"a">>), Str(<<>>)>>)
    /\ data = << <<cValue, Str(<<"a", ",">>)>> >>
    /\ out = Ret(value)

\* C8: stringCodec, numberCodec and booleanCodec satisfy
\* decode(encode(x)) = x for every string, every integer of the range (0 and
\* negatives included) and both booleans, and encode(x) is the one-entry map
\* {key: serialize(x)} under the configured key.
C8_PrimitiveRoundTrip ==
    (codec.kind \in {"string", "number", "boolean"} /\ RoundTripDone) =>
        /\ out = Ret(value)
        /\ Len(data) = 1
        /\ data[1][1] = codec.key
        /\ data[1][2].t = "str"
        /\ codec.kind = "string" => data[1][2] = value
        /\ codec.kind = "boolean" => data[1][2].s = (IF value.b THEN cTrue ELSE cFalse)
        /\ codec.kind = "number" => ToNumber(data[1][2].s) = value
        /\ value = Num(-10) => data[1][2].s = <<"-", "1", "0">>

C8_Witness ==
    /\ codec = NumberCodec(cValue)
    /\ RoundTripDone
    /\ value = Num(0)
    /\ data = << <<cValue, Str(<<"0">>)>> >>
    /\ out = Ret(Num(0))

\* C9: decode is total: for every provided codec and every string map (the
\* empty map and maps with malformed values included) decode returns a
\* value and never raises.
C9_DecodeTotal == LastOp = "decode" => ~out.raised

C9_Witness ==
    /\ codec = JsonCodec(cData)
    /\ ops = <<"merge", "decode">>
    /\ data = << <<cData, Str(<<"[", "1">>)>> >>
    /\ out = Ret(Obj(<<>>))

\* what C10 states of a run that starts by decoding the empty map
EmptyDecodeStable ==
    /\ LastOp = "decode" => ~out.raised
    /\ ops = <<"decode", "decode">> => out = prev
    /\ ops = <<"decode", "reencode", "decode">> => out = prev

\* C10 as stated: for all codec strategies decode({}) never raises, two
\* calls of decode({}) return equal values, and
\* decode(encode(decode({}))) = decode({}).
C10_EmptyDecodeStableAllCodecs == FromEmptyMap => EmptyDecodeStable

\* C10 amended: for every codec decode({}) never raises and
\* decode(encode(d)) = d for the value d that decode({}) returned; two calls
\* of decode({}) return equal values for every codec but dateCodec, whose
\* decode({}) is the time of the call (a valid date, never later than now).
C10_EmptyDecodeStable ==
    FromEmptyMap =>
        /\ LastOp = "decode" => ~out.raised
        /\ ops = <<"decode", "reencode", "decode">> => out = prev
        /\ (codec.kind # "date" /\ ops = <<"decode", "decode">>) => out = prev
        /\ (codec.kind = "date" /\ ops = <<"decode", "decode">>) =>
              /\ out.v.valid /\ prev.v.valid
              /\ prev.v.ms <= out.v.ms /\ out.v.ms <= now

C10_Witness ==
    /\ FromEmptyMap
    /\ codec = JsonCodec(cData)
    /\ ops = <<"decode", "reencode", "decode">>
    /\ data = << <<cData, Str(<<"{", "}">>)>> >>
    /\ out = Ret(Obj(<<>>))

\* C11: jsonCodec(key).decode(map) returns the empty object {} when map has
\* no entry for key and when the entry is not parseable as JSON; when the
\* entry is parseable it returns the parsed value; it never raises.
C11_JsonDecodeFallback ==
    (codec.kind = "json" /\ LastOp = "decode") =>
        LET parsed == JSONparse(Get(data, codec.key)) IN
        /\ ~out.raised
        /\ ~HasKey(data, codec.key) => out.v = Obj(<<>>)
        /\ (HasKey(data, codec.key) /\ parsed.raised) => out.v = Obj(<<>>)
        /\ (HasKey(data, codec.key) /\ ~parsed.raised) => out.v = parsed.v

C11_Witness ==
    /\ codec = JsonCodec(cData)
    /\ ops = <<"merge", "decode">>
    /\ data = << <<cData, Str(<<"{", "a", ":", "1", "}">>)>> >>
    /\ out = Ret(Obj(<<>>))

----------------------------------------------------------------------------
(* Claims about the conversions (checked under SpecBridge) *)

\* the names of the pairs of a parameter collection
Names(pl) == {pl[i][1] : i \in DOMAIN pl}
\* the pair at i is the last one of its name
IsLastOfName(pl, i) == \A j \in (i + 1)..Len(pl) : pl[j][1] # pl[i][1]
\* the last two conversions
LastTwo(a, b) == Len(ops) >= 2 /\ ops[Len(ops) - 1] = a /\ ops[Len(ops)] = b

\* C12: urlSearchParamsToStringMap collapses duplicate keys to the last
\* value in iteration order: the resulting map has exactly the keys that
\* occur in the parameter sequence, each once, and each key maps to the
\* value of its last occurrence ("name=John&name=Jane" gives {name: "Jane"}).
C12_DuplicateKeysLastWins ==
    LastOp = "toMap" =>
        /\ Keys(data) = Names(paramList)
        /\ Len(data) = Cardinality(Keys(data))
        /\ \A i \in DOMAIN paramList :
              IsLastOfName(paramList, i) => Get(data, paramList[i][1]) = Str(paramList[i][2])
        /\ (LastTwo("parse", "toMap") /\ paramText = cNameJohnNameJane)
              => data = << <<cName, Str(cJane)>> >>

C12_Witness ==
    /\ ops = <<"parse", "toMap">>
    /\ paramText = cNameJohnNameJane
    /\ paramList = << <<cName, cJohn>>, <<cName, cJane>> >>
    /\ data = << <<cName, Str(cJane)>> >>

\* C13: stringMapToURLSearchParams emits exactly one parameter, with the
\* key's value, for each key whose value is neither null nor undefined, and
\* no parameter (not even an empty-string one) for a key whose value is null
\* or undefined; the empty map gives the empty parameter string.
C13_NullishValuesSkipped ==
    /\ LastOp = "toParams" =>
          /\ \A i \in DOMAIN data :
                LET k == data[i][1]
                    v == data[i][2]
                    at == {j \in DOMAIN paramList : paramList[j][1] = k}
                IN  IF v.t \in {"null", "undef"} THEN at = {}
                    ELSE Cardinality(at) = 1 /\ \A j \in at : paramList[j][2] = v.s
          /\ Names(paramList) \subseteq Keys(data)
          /\ data = << <<kA, Str(<<"1">>)>>, <<kK, Null>>, <<kN, Undef>> >>
                => paramList = << <<kA, <<"1">>>> >>
    /\ (LastTwo("toParams", "toString") /\ data = EmptyMap) => paramText = <<>>
    /\ (LastTwo("toParams", "toString") /\ data = << <<kA, Str(<<>>)>>, <<kK, Null>> >>)
          => paramText = <<"a", "=">>

C13_Witness ==
    /\ ops = <<"toParams", "toString">>
    /\ data = << <<cName, Str(cJohn)>>, <<cAge, Null>>, <<kK, Undef>>, <<kN, Str(<<"U">>)>> >>
    /\ paramList = << <<cName, cJohn>>, <<kN, <<"U">>>> >>
    /\ paramText = cName \o <<"=">> \o cJohn \o <<"&", "n", "=", "U">>

----------------------------------------------------------------------------
(* Claims about updateQuery (checked under SpecUrl).  A step of the page   *)
(* is a call: log holds the call before it, log' the call itself, and the  *)
(* unprimed location is the one the call found.                            *)

\* the step is a call of fn
Calls(fn) == log' # <<>> /\ log' # log /\ log'[1].fn = fn
\* the last call before the step
Called(fn) == log # <<>> /\ log[1].fn = fn
\* the query string of a location, without its "?"
QueryOf(q) == IF q = <<>> THEN <<>> ELSE Tail(q)
\* the parameter string built from codec.encode(value)
ParamString(e) == QueryStringOf(Encode(e.c, e.v).v)
\* the string map of the parameters of a query
QueryMap(q) == UrlSearchParamsToStringMap(NewURLSearchParams(LocationSearch(q)))
\* a string map without its null and undefined entries
StringMapToStrs(m) == SelectSeq(m, LAMBDA kv : kv[2].t = "str")
\* the query holds every parameter of the encoded value
HoldsParamsOf(q, e) ==
    LET m == StringMapToURLSearchParams(Encode(e.c, e.v).v) IN
    \A i \in DOMAIN m : Get(QueryMap(q), m[i][1]) = Str(m[i][2])

\* C1: in query mode updateQuery calls neither history.replaceState nor
\* history.pushState when the parameter string built from
\* codec.encode(value) is the location's current query string, the empty
\* one included.
C1_NoHistoryCallWhenQueryUnchanged ==
    [][(/\ hasWindow
        /\ Calls("updateQuery")
        /\ ~log'[1].opt.useHash
        /\ ~log'[1].raised
        /\ ParamString(log'[1]) = QueryOf(search))
       => log'[1].calls = <<>>]_vars

\* C2: after updateQuery(prefixCodec(a), u) followed by
\* updateQuery(prefixCodec(b), s) with another namespace, the query string
\* holds both the parameters of u and those of s.
C2_PrefixCodecsShareQuery ==
    [][(/\ hasWindow
        /\ Called("updateQuery") /\ Calls("updateQuery")
        /\ ~log[1].opt.useHash /\ ~log'[1].opt.useHash
        /\ ~log[1].raised /\ ~log'[1].raised
        /\ log[1].c.kind = "prefix" /\ log'[1].c.kind = "prefix"
        /\ log[1].c.prefix # log'[1].c.prefix)
       => (HoldsParamsOf(search', log[1]) /\ HoldsParamsOf(search', log'[1]))]_vars

\* the last call of the page is a call of fn
Last(fn) == log # <<>> /\ log[1].fn = fn
\* the fallback of a read: the default given, else codec.decode({})
FallbackValues(e) ==
    IF e.v # Undef THEN {e.v} ELSE {r.v : r \in Decode(e.c, EmptyMap, now)}
\* the outcomes of codec.decode on the string map of a parameter string
DecodedFrom(e, ps) == Decode(e.c, UrlSearchParamsToStringMap(NewURLSearchParams(ps)), now)
\* the content of the fragment of the URL
FragmentOf(h) == IF h = <<>> THEN <<>> ELSE Tail(h)
HasQuestionMark(x) == \E i \in DOMAIN x : x[i] = "?"
vJohn0 == Obj(<< <<cName, Str(cJohn)>>, <<cAge, Num(0)>> >>)

C15_ParamStringResolution ==
    (Last("decodeFromQuery") /\ hasWindow) =>
        LET ps == log[1].paramString
            opt == log[1].opt
            content == FragmentOf(hash)
            path == HashPath(hash)
        IN  /\ ~opt.useHash => ps = LocationSearch(search) /\ QueryOf(ps) = QueryOf(search)
            /\ (opt.useHash /\ ~opt.hashRouting) => ps = content
            /\ (opt.useHash /\ opt.hashRouting) =>
                  /\ ~HasQuestionMark(path)
                  /\ IF HasQuestionMark(content)
                     THEN content = path \o <<"?">> \o ps
                     ELSE ps = <<>> /\ path = content
                  /\ hash = cHashProducts =>
                        /\ path = cProducts
                        /\ ps = cName \o <<"=">> \o cLaptop \o <<"&">>
                                \o cCategory \o <<"=">> \o cElectronics

C15_Witness ==
    /\ Last("decodeFromQuery")
    /\ hasWindow
    /\ hash = cHashProducts
    /\ log[1].opt.useHash /\ log[1].opt.hashRouting
    /\ log[1].c = FlatCodec
    /\ log[1].paramString # <<>>
    /\ log[1].ret = Obj(<< <<cName, Str(cLaptop)>>, <<cCategory, Str(cElectronics)>> >>)

\* the step is a call of updateQuery on a page, whose encode returned
Updates == hasWindow /\ Calls("updateQuery") /\ ~log'[1].raised
QueryMode(e) == ~e.opt.useHash
HashMode(e) == e.opt.useHash /\ ~e.opt.hashRouting
HashRoutingMode(e) == e.opt.useHash /\ e.opt.hashRouting
cQueryJane25 == <<"?">> \o cName \o <<"=">> \o cJane \o <<"&">> \o cAge \o <<"=", "2", "5">>
cHashJane25 == <<"#">> \o cName \o <<"=">> \o cJane \o <<"&">> \o cAge \o <<"=", "2", "5">>
cTabletParams ==
    cName \o <<"=">> \o cTablet \o <<"&">> \o cCategory \o <<"=">> \o cElectronics

\* C16: in query mode, when the encoded query string differs from the
\* current one, updateQuery commits with exactly one history call:
\* history.replaceState when options.history is 'replace' or is not given,
\* history.pushState when it is 'push'; the other of the two is not called.
C16_OneHistoryCall ==
    [][(/\ Updates
        /\ QueryMode(log'[1])
        /\ ParamString(log'[1]) # QueryOf(search))
       => log'[1].calls = <<IF log'[1].opt.history = "push" THEN "pushState"
                            ELSE "replaceState">>]_vars

C16_Witness ==
    /\ Last("updateQuery")
    /\ hasWindow
    /\ log[1].c = MockCodec
    /\ log[1].opt = Options("default", FALSE, FALSE)
    /\ log[1].calls = <<"replaceState">>
    /\ search = cQueryJane25

\* C17: in query mode the URL that updateQuery commits differs from the
\* current URL only in its query portion: the hash fragment is that of the
\* current location, and the query portion is exactly the parameter string
\* of codec.encode(value) (every previous parameter is replaced).
C17_OnlyQueryReplaced ==
    [][(/\ Updates
        /\ QueryMode(log'[1])
        /\ log'[1].calls # <<>>)
       => (/\ hash' = hash
           /\ QueryOf(search') = ParamString(log'[1])
           /\ search' # <<>> => search'[1] = "?"
           /\ QueryMap(search') = StringMapToStrs(Encode(log'[1].c, log'[1].v).v))]_vars

C17_Witness ==
    /\ Last("updateQuery")
    /\ hasWindow
    /\ log[1].c = FlatCodec
    /\ log[1].v = vName
    /\ log[1].opt.history = "push"
    /\ log[1].calls = <<"pushState">>
    /\ search = cQueryN
    /\ hash = cHashPN
    /\ histLen = 3

\* C18: in hash mode without hash routing updateQuery sets the location
\* hash to '#' followed by the parameter string of codec.encode(value), and
\* performs the assignment only when that differs from the current hash
\* (the value of location.hash); when it is equal, the hash is not assigned.
C18_HashAssignedWhenDifferent ==
    [][(Updates /\ HashMode(log'[1])) =>
         LET newHash == <<"#">> \o ParamString(log'[1]) IN
         /\ search' = search
         /\ IF newHash # LocationHash(hash)
            THEN log'[1].calls = <<"hash">> /\ hash' = newHash
            ELSE log'[1].calls = <<>> /\ hash' = hash
         /\ ParamString(log'[1]) # <<>> => (log'[1].calls = <<"hash">> <=> hash' # hash)]_vars

C18_Witness ==
    /\ Last("updateQuery")
    /\ hasWindow
    /\ log[1].c = MockCodec
    /\ HashMode(log[1])
    /\ log[1].calls = <<"hash">>
    /\ hash = cHashJane25

\* C19: in hash-routing mode updateQuery preserves the path: the new hash is
\* the current hash's path part (everything before its first '?') followed
\* by '?' and the new parameter string when that string is non-empty, and
\* the path alone when it is empty; the hash is assigned only if it differs
\* from the value of location.hash.  #/products?name=laptop&category=electronics
\* updated with {name: tablet, category: electronics} gives
\* #/products?name=tablet&category=electronics.
C19_HashRoutingKeepsPath ==
    [][(Updates /\ HashRoutingMode(log'[1])) =>
         LET ps == ParamString(log'[1])
             content == FragmentOf(hash)
             path == IF HasQuestionMark(content)
                     THEN SubSeq(content, 1, IndexOf(content, "?") - 1)
                     ELSE content
             newHash == <<"#">> \o path \o (IF ps # <<>> THEN <<"?">> \o ps ELSE <<>>)
         IN  /\ search' = search
             /\ IF newHash # LocationHash(hash)
                THEN log'[1].calls = <<"hash">> /\ hash' = newHash
                ELSE log'[1].calls = <<>> /\ hash' = hash
             /\ newHash # <<"#">> => (log'[1].calls = <<"hash">> <=> hash' # hash)
             /\ (hash = cHashProducts /\ log'[1].c = FlatCodec /\ log'[1].v = vTablet)
                   => hash' = <<"#">> \o cProducts \o <<"?">> \o cTabletParams
             /\ (hash = cHashProducts /\ log'[1].c = FlatCodec /\ log'[1].v = vEmpty)
                   => hash' = <<"#">> \o cProducts]_vars

C19_Witness ==
    /\ Last("updateQuery")
    /\ hasWindow
    /\ log[1].c = FlatCodec
    /\ log[1].v = vTablet
    /\ HashRoutingMode(log[1])
    /\ log[1].calls = <<"hash">>
    /\ hash = <<"#">> \o cProducts \o <<"?">> \o cTabletParams

\* C20: without a window the options-based updateQuery is a no-op: it
\* returns without raising, without encoding the value and without any
\* history call or hash assignment, for every codec, value and options.
C20_NoWindowNoOp ==
    (~hasWindow /\ Last("updateQuery")) =>
        /\ ~log[1].raised
        /\ ~log[1].encoded
        /\ log[1].calls = <<>>
        /\ search = <<>> /\ hash = <<>> /\ histLen = 0

C20_Witness ==
    /\ ~hasWindow
    /\ Last("updateQuery")
    /\ log[1].c = DateCodec(cValue)
    /\ log[1].v = InvalidDate
    /\ log[1].opt = Options("push", TRUE, TRUE)
    /\ ~log[1].raised

----------------------------------------------------------------------------
(* The legacy API *)



\* C21: the legacy getCurrentQuery and updateQuery raise when there is no
\* window, and then touch neither the history nor the location; with a
\* window, a legacy updateQuery whose encode returns commits the URL of the
\* encoded value with exactly one history call, pushState by default and
\* replaceState with replace: true, also when the query string is the
\* current one.
C21_LegacyRaisesOrCommits ==
    [][/\ ((Calls("legacyUpdateQuery") \/ Calls("getCurrentQuery")) /\ ~hasWindow)
            => /\ log'[1].raised
               /\ ~log'[1].encoded
               /\ log'[1].calls = <<>>
               /\ UNCHANGED <<search, hash, histLen>>
       /\ (Calls("legacyUpdateQuery") /\ hasWindow /\ ~log'[1].raised)
            => /\ log'[1].calls = <<IF log'[1].opt.history = "replace"
                                    THEN "replaceState" ELSE "pushState">>
               /\ QueryOf(search') = ParamString(log'[1])
               /\ hash' = hash]_vars

\* two legacy calls with the same value on a page opened with that query:
\* two entries pushed
C21_Witness ==
    /\ Last("legacyUpdateQuery")
    /\ hasWindow
    /\ log[1].c = FlatCodec /\ log[1].v = vName
    /\ log[1].calls = <<"pushState">>
    /\ log[1].n = 1
    /\ search = cQueryN
    /\ histLen = 3

----------------------------------------------------------------------------
(* Repeated updates *)

\* the step repeats the updateQuery before it: the same codec and value
Repeats ==
    /\ hasWindow
    /\ Called("updateQuery") /\ Calls("updateQuery")
    /\ ~log[1].raised /\ ~log'[1].raised
    /\ log'[1].c = log[1].c /\ log'[1].v = log[1].v /\ log'[1].opt = log[1].opt

\* C26: in each mode, an updateQuery(codec, v, opts) that immediately
\* follows an updateQuery(codec, v, opts) makes no history call and no
\* hash assignment, and adds no history entry, also when codec.encode(v)
\* is the empty map.
C26_RepeatedUpdateIdempotent ==
    [][Repeats => (log'[1].calls = <<>> /\ histLen' = histLen)]_vars

----------------------------------------------------------------------------
(* A read after a write *)

\* every entry of the map is a string
IsStringMap(m) == \A i \in DOMAIN m : m[i][2].t = "str"

\* the step reads, without a fallback, what the updateQuery before it
\* wrote: the same codec, the options of the page
ReadsBack ==
    /\ hasWindow
    /\ Called("updateQuery") /\ ~log[1].raised
    /\ IsStringMap(Encode(log[1].c, log[1].v).v)
    /\ Calls("decodeFromQuery")
    /\ log'[1].c = log[1].c
    /\ log'[1].v = Undef

\* C27: in every mode, from every location, for a value whose encoding is
\* a map of strings, decodeFromQuery(codec, opts) without a fallback right
\* after updateQuery(codec, v, opts) returns codec.decode(codec.encode(v)).
C27_WriteThenRead ==
    [][ReadsBack =>
        /\ ~log'[1].raised
        /\ Ret(log'[1].ret) \in Decode(log[1].c, Encode(log[1].c, log[1].v).v, now)]_vars

cHashPQuery ==
    cHashP \o <<"?", "s", ".", "q", "=", "a", "+", "b", "&",
                "s", ".", "a", "=", "%", "5", "B", "1", "%", "5", "D">>

\* a value with a space and an array, written after the path of a routed
\* hash and read back
C27_Witness ==
    /\ Last("decodeFromQuery")
    /\ hasWindow
    /\ options.useHash /\ options.hashRouting
    /\ log[1].c = PrefixCodec(nsS, cDot)
    /\ log[1].v = Undef
    /\ hash = cHashPQuery
    /\ ~log[1].raised
    /\ log[1].ret = vQuery

----------------------------------------------------------------------------
(* What each mode touches *)

\* C28: with useHash (with or without hashRouting) updateQuery calls
\* neither history.replaceState nor history.pushState, whatever
\* options.history is, and leaves the query string as it was; in query
\* mode it never assigns location.hash and the hash stays.
C28_ModeFrame ==
    [][(hasWindow /\ Calls("updateQuery")) =>
        IF log'[1].opt.useHash
        THEN /\ \A i \in DOMAIN log'[1].calls : log'[1].calls[i] = "hash"
             /\ search' = search
        ELSE /\ \A i \in DOMAIN log'[1].calls : log'[1].calls[i] # "hash"
             /\ hash' = hash]_vars

\* a plain-hash update with history: 'push' on a URL that has a query
C28_Witness ==
    /\ Last("updateQuery")
    /\ hasWindow
    /\ log[1].opt = Options("push", TRUE, FALSE)
    /\ log[1].c = MockCodec
    /\ log[1].calls = <<"hash">>
    /\ search = cQueryN
    /\ hash = cHashJane25

----------------------------------------------------------------------------
(* The entries of an encoded record *)

\* the prefix a codec of fields puts before a field name
KeyPrefix(c) == IF c.kind = "prefix" THEN c.prefix ELSE <<>>

\* C29: flatCodec.encode(v) and prefixCodec(ns, sep).encode(v) return a
\* map with one entry per field of v, in the order of the fields, its key
\* the field name (after ns+sep for the prefix codec) and its value a
\* string: the field's own value when it is a string, its JSON text
\* otherwise; also for a field that holds undefined.
C29_EncodedEntriesAreStrings ==
    (codec.kind \in {"flat", "prefix"} /\ ops = <<"encode">>) =>
        /\ Len(data) = Len(value.o)
        /\ \A i \in DOMAIN value.o :
              /\ data[i][1] = KeyPrefix(codec) \o value.o[i][1]
              /\ data[i][2].t = "str"
              /\ data[i][2] = (IF value.o[i][2].t = "str" THEN value.o[i][2]
                               ELSE JSONstringify(value.o[i][2]))

----------------------------------------------------------------------------
(* The initial value of the URL hooks *)

\* C25: useUrlSyncedState (so useSearchParams, useHashParams and
\* useHashRoutingParams, which pass their options to it) has the
\* defaultValue given as its value when the URL holds no parameters for
\* the mode, and when there is no window.
C25_DefaultWhenNoParams ==
    (Last("useUrlSyncedState") /\ (~hasWindow \/ log[1].paramString = <<>>))
        => log[1].ret = log[1].v

----------------------------------------------------------------------------
(* The persistent store *)

\* the last call of the hook
HookLast(fn) == hookLog # <<>> /\ hookLog[1].fn = fn
\* the text the setter stores for a value
SlotTextOf(c, v) == JSONstringify(Obj(Encode(c, v).v))
cJaneJson ==
    <<"{", "\"">> \o cName \o <<"\"", ":", "\"">> \o cJane \o <<"\"", ",", "\"">>
    \o cAge \o <<"\"", ":", "\"", "2", "5", "\"", "}">>

\* C22: the initial value of useLocalStorageCodec is the default given
\* when the slot is absent, when its text is no valid JSON, when
\* codec.decode raises on the parsed content and when there is no window;
\* otherwise it is codec.decode(JSON.parse(slot)); the read never raises.
C22_StoredRead ==
    HookLast("mount") =>
        /\ ~hookLog[1].raised
        /\ (~hasWindow \/ slot = Null) => hookValue = hookDefault
        /\ (hasWindow /\ slot # Null /\ JSONparse(slot).raised) => hookValue = hookDefault
        /\ (hasWindow /\ slot # Null /\ ~JSONparse(slot).raised) =>
              \E r \in DecodeParsed(codec, JSONparse(slot).v, now) :
                  hookValue = (IF r.raised THEN hookDefault ELSE r.v)
        /\ slot = Str(cInvalidJson) => hookValue = hookDefault
        /\ (slot = Str(cJaneJson) /\ codec = MockCodec) => hookValue = vJane

\* the strict codec refuses what the slot holds
C22_Witness ==
    /\ HookLast("mount")
    /\ hasWindow
    /\ codec = StrictCodec
    /\ slot = Str(cAgeXJson)
    /\ hookValue = vDefault

\* C23: a write that succeeds stores JSON.stringify(codec.encode(v)) in
\* the slot and the value held is v; when the store write throws, the
\* setter does not raise, the value held is v and the slot keeps what it
\* held.
C23_StoredWrite ==
    /\ (HookLast("set") /\ hasWindow /\ ~Encode(codec, hookLog[1].v).raised) =>
          /\ slot = SlotTextOf(codec, hookLog[1].v)
          /\ hookValue = hookLog[1].v
          /\ ~hookLog[1].raised
    /\ HookLast("setFull") =>
          /\ ~hookLog[1].raised
          /\ hookValue = hookLog[1].v
          /\ slot = hookLog[1].before
    /\ (HookLast("set") /\ hasWindow /\ hookLog[1].v = vJane) => slot = Str(cJaneJson)

\* the store is full when a new value is set over a stored one
C23_Witness ==
    /\ HookLast("setFull")
    /\ codec = MockCodec
    /\ hookLog[1].v = vJane
    /\ hookValue = vJane
    /\ slot = SlotTextOf(MockCodec, vJohn30)
    /\ hookLog[1].logged

----------------------------------------------------------------------------
(* The states of useCodecValue *)

\* the i-th run of loadValue is under way
Started(i) == i \in DOMAIN loads
\* the i-th run has set its last state
Completed(i) == i \in DOMAIN loads /\ loads[i].pc = "done"
\* the step completes the i-th run
Completes(i) ==
    /\ i \in DOMAIN loads' /\ loads'[i].pc = "done"
    /\ ~Completed(i)
\* the value the codec decodes from a source that resolves
Resolved(src) ==
    IF src.kind = "resolve" THEN {r \in Decode(codec, src.data, now) : ~r.raised} ELSE {}

\* C24: the state of useCodecValue starts as {value: defaultValue,
\* loading: true, no error}; a run whose source resolves with data leaves
\* {value: codec.decode(data), loading: false, no error}; a run whose
\* source throws or rejects, or whose decode raises, leaves the value as it
\* was (the defaultValue on the first load), its error set and loading
\* false; every run that has started completes, and once every run has
\* completed loading is false.
C24_LoadStateSequence ==
    /\ [](loads = <<>> =>
            state = [value |-> hookDefault, error |-> Undef, loading |-> TRUE])
    /\ [][\A i \in 1..MaxLoads : Completes(i) =>
            LET src == loads'[i].src IN
            IF Resolved(src) # {}
            THEN \E r \in Resolved(src) :
                    state' = [value |-> r.v, error |-> Undef, loading |-> FALSE]
            ELSE /\ state' = [value |-> state.value, error |-> Err(i), loading |-> FALSE]
                 /\ Len(loads') = 1 => state'.value = hookDefault]_vars
    /\ []((loads # <<>> /\ \A i \in DOMAIN loads : Completed(i)) => ~state.loading)
    /\ \A i \in 1..MaxLoads : Started(i) ~> Completed(i)

\* the first source resolves with data the strict codec refuses
C24_Witness ==
    /\ codec = StrictCodec
    /\ Len(loads) = 1
    /\ loads[1].src = Resolves(cAgeXMap)
    /\ loads[1].pc = "done"
    /\ state = [value |-> vDefault, error |-> Err(1), loading |-> FALSE]

----------------------------------------------------------------------------
(* Overlapping loads *)

\* C30: when a run of loadValue for a newer source is started before the
\* run for the older source has completed, then once both have completed
\* the value and the error of the hook are those of the newer source's
\* outcome, whichever run completed first.
C30_NewerLoadWins ==
    (Len(loads) = 2 /\ Completed(1) /\ Completed(2)) =>
        LET src == loads[2].src IN
        IF Resolved(src) # {}
        THEN /\ state.error = Undef
             /\ \E r \in Resolved(src) : state.value = r.v
        ELSE state.error = Err(2)

=============================================================================
